---- MODULE Spec2Model ----
(***************************************************************************)
(* A model of the 4ebur-net MITM proxy: the HTTP response cache            *)
(* (internal/cache), the per-host certificate manager (internal/cert) and  *)
(* the plain-HTTP and CONNECT handlers of the two proxy variants           *)
(* (internal/proxy) and the control routes of cmd/proxy.                   *)
(***************************************************************************)
EXTENDS Integers, Sequences, FiniteSets, TLC

VARIABLES
    entries,      \* HTTPCache.entries: key -> CacheEntry
    currentSize,  \* HTTPCache.currentSize
    hitCount,     \* HTTPCache.hitCount
    missCount,    \* HTTPCache.missCount
    now,          \* the wall clock read by time.Now()
    last,         \* the step taken last, with its arguments and result
    readers,      \* goroutine -> its position inside a racing HTTPCache.Get
    observed,     \* the counters the last Stats call returned
    certMap,      \* CertManager.certMap: hostname -> *tls.Certificate
    callers,      \* goroutine -> its position inside GetCertificate
    minted,       \* the leaf certificates generateCertificate has signed, in order
    results,      \* what the GetCertificate calls have returned
    call,         \* the function of package cache called last, with its arguments
    ret,          \* what that call returned
    handler,      \* the plain-HTTP handler that served the client's request
    clientReq,    \* the request received from the client
    outReq,       \* the request the handler passed to transport.RoundTrip
    w,            \* what the handler wrote to the client's ResponseWriter
    upstreamResp, \* what transport.RoundTrip returned to the handler
    conn,         \* the CONNECT handler: its position, its client socket, its log
    served,       \* the requests the caching handler has served, with their answers
    flight,       \* the outbound request of a plain-HTTP handler while the origin holds it
    pool,         \* the buffers of pkg/pool: the pooled ones and the ones goroutines hold
    tier,         \* the TieredCache in front of the HTTPCache: its L2 and its counters
    getters       \* goroutine -> its position inside TieredCache.Get

clockVars == <<now, last>>

cacheVars == <<entries, currentSize, hitCount, missCount, readers, observed>>

certVars == <<certMap, callers, minted, results>>

pureVars == <<call, ret>>

proxyVars == <<handler, clientReq, outReq, w, upstreamResp>>

connectVars == <<conn>>

servedVars == <<served>>

forwardVars == <<flight>>

poolVars == <<pool>>

tierVars == <<tier, getters>>

vars == <<clockVars, cacheVars, certVars, pureVars, proxyVars, connectVars, servedVars, forwardVars, poolVars, tierVars>>

\* What a step of one component leaves alone.
CacheFrame == UNCHANGED <<certVars, pureVars, proxyVars, connectVars, servedVars, forwardVars, poolVars, tierVars>>
CertFrame == UNCHANGED <<clockVars, cacheVars, pureVars, proxyVars, connectVars, servedVars, forwardVars, poolVars, tierVars>>
PureFrame == UNCHANGED <<clockVars, cacheVars, certVars, proxyVars, connectVars, servedVars, forwardVars, poolVars, tierVars>>
ProxyFrame == UNCHANGED <<clockVars, cacheVars, certVars, pureVars, connectVars, servedVars, forwardVars, poolVars, tierVars>>
ConnectFrame == UNCHANGED <<clockVars, cacheVars, certVars, pureVars, servedVars, forwardVars, poolVars, tierVars>>
ForwardFrame == UNCHANGED <<clockVars, cacheVars, certVars, pureVars, connectVars, servedVars, poolVars, tierVars>>
PoolFrame == UNCHANGED <<clockVars, cacheVars, certVars, pureVars, proxyVars, connectVars, servedVars, forwardVars, tierVars>>
TierFrame == UNCHANGED <<certVars, pureVars, proxyVars, connectVars, servedVars, forwardVars, poolVars, getters>>
GetterFrame == UNCHANGED <<certVars, pureVars, proxyVars, connectVars, servedVars, forwardVars, poolVars>>

-----------------------------------------------------------------------------
(* Bounds of the model. *)

\* The maxSize the cache is constructed with.
maxSize == 3
\* The clock runs from 0 to MaxTime.
MaxTime == 1
\* A run of the cache alone calls Get at most MaxGets times.
MaxGets == 1
\* A run of the cache on two keys calls Get at most MaxSeqGets times.
MaxSeqGets == 2
\* Concurrent Gets are no longer started once a counter has reached MaxCount.
MaxCount == 2

Keys == {"k1", "k2", "k3"}
\* Entry sizes in bytes; the largest exceeds maxSize.
Sizes == {1, 2, maxSize + 1}
\* The instants an entry's CachedAt and ExpireAt are drawn from.
Stamps == {0, 1}
\* The goroutines that call Get concurrently.
Goroutines == {"g1", "g2"}

-----------------------------------------------------------------------------
(* internal/cache: HTTPCache *)

CacheEntry == [Size : Sizes, CachedAt : Stamps, ExpireAt : Stamps]

Idle == [pc |-> "idle"]

NoReaders == \A g \in Goroutines : readers[g] = Idle

\* The map without the key x.
Without(ents, x) == [k \in DOMAIN ents \ {x} |-> ents[k]]

\* The map with key x bound to e.
With(ents, x, e) == [k \in DOMAIN ents \cup {x} |-> IF k = x THEN e ELSE ents[k]]

\* An eviction that picks newest-first: not what evictLRU does.
Newest(ents) ==
    {k \in DOMAIN ents : \A j \in DOMAIN ents : ~(ents[j].CachedAt > ents[k].CachedAt)}

\* The keys the inner loop of evictLRU can end on: an entry no other entry is
\* strictly Before; among equal CachedAt the map's iteration order decides.
Oldest(ents) ==
    {k \in DOMAIN ents : \A j \in DOMAIN ents : ~(ents[j].CachedAt < ents[k].CachedAt)}

\* evictLRU(needed) from the state (ents, cur): the set of states it can end in,
\* each with the sequence of keys it evicted.
RECURSIVE evictLRU(_, _, _, _)
evictLRU(ents, cur, needed, ev) ==
    IF needed > 0 /\ DOMAIN ents # {}
    THEN UNION { evictLRU(Without(ents, k), cur - ents[k].Size,
                          needed - ents[k].Size, Append(ev, k)) : k \in Oldest(ents) }
    ELSE {[entries |-> ents, currentSize |-> cur, evicted |-> ev]}

\* An expiry test that also fires at the instant ExpireAt: not what After does.
ExpiredAtOrAfter(e, t) == t >= e.ExpireAt

\* time.Now().After(entry.ExpireAt)
Expired(e, t) == t > e.ExpireAt

\* What Get finds for key at time t.
Found(ents, key, t) == key \in DOMAIN ents /\ ~Expired(ents[key], t)

\* NewTieredCache(l1, l2, maxAge): l2 is a RedisBackend that holds nothing yet,
\* or nil.
NewTieredCache(hasL2) ==
    [hasL2 |-> hasL2, l2 |-> << >>, hitCount |-> 0, missCount |-> 0,
     l1Hits |-> 0, l2Hits |-> 0]

\* What Get returns beside false.
NoEntry == [Size |-> 0]

\* No goroutine is inside TieredCache.Get; none has returned from it yet.
NoGetters ==
    [g \in Goroutines |-> [pc |-> "idle", key |-> "", entry |-> NoEntry, done |-> 0]]

InitTier == tier = NewTieredCache(TRUE) /\ getters = NoGetters

InitCache ==
    /\ entries = << >>
    /\ currentSize = 0
    /\ hitCount = 0
    /\ missCount = 0
    /\ now = 0
    /\ last = [op |-> "NewHTTPCache"]
    /\ readers = [g \in Goroutines |-> Idle]
    /\ observed = [hits |-> 0, misses |-> 0, size |-> 0, entries |-> 0]

\* A Get that returns an entry of the map whatever its key: not what Get does.
GetAnyEntry(key) ==
    /\ NoReaders
    /\ IF Found(entries, key, now)
       THEN hitCount' = hitCount + 1 /\ missCount' = missCount
       ELSE missCount' = missCount + 1 /\ hitCount' = hitCount
    /\ \E k \in DOMAIN entries \cup {key} :
          last' = [op |-> "Get", key |-> key, found |-> Found(entries, key, now),
                   entry |-> IF Found(entries, key, now) THEN entries[k] ELSE NoEntry]
    /\ UNCHANGED <<entries, currentSize, now, readers, observed>>
    /\ CacheFrame

\* A Get that counts a hit whenever the key is in the map, expired or not: not
\* what Get does.
GetCountsPresent(key) ==
    /\ NoReaders
    /\ IF key \in DOMAIN entries
       THEN hitCount' = hitCount + 1 /\ missCount' = missCount
       ELSE missCount' = missCount + 1 /\ hitCount' = hitCount
    /\ last' = [op |-> "Get", key |-> key, found |-> Found(entries, key, now),
                entry |-> IF Found(entries, key, now) THEN entries[key] ELSE NoEntry]
    /\ UNCHANGED <<entries, currentSize, now, readers, observed>>
    /\ CacheFrame

\* A Get that deletes the expired entry it comes upon: not what Get does.
GetDropsExpired(key) ==
    /\ NoReaders
    /\ IF Found(entries, key, now)
       THEN hitCount' = hitCount + 1 /\ missCount' = missCount
       ELSE missCount' = missCount + 1 /\ hitCount' = hitCount
    /\ IF key \in DOMAIN entries /\ Expired(entries[key], now)
       THEN /\ entries' = Without(entries, key)
            /\ currentSize' = currentSize - entries[key].Size
       ELSE UNCHANGED <<entries, currentSize>>
    /\ last' = [op |-> "Get", key |-> key, found |-> Found(entries, key, now),
                entry |-> IF Found(entries, key, now) THEN entries[key] ELSE NoEntry]
    /\ UNCHANGED <<now, readers, observed>>
    /\ CacheFrame

\* Get, run to completion with no other Get in flight.
Get(key) ==
    /\ NoReaders
    /\ IF Found(entries, key, now)
       THEN hitCount' = hitCount + 1 /\ missCount' = missCount
       ELSE missCount' = missCount + 1 /\ hitCount' = hitCount
    /\ last' = [op |-> "Get", key |-> key, found |-> Found(entries, key, now),
                entry |-> IF Found(entries, key, now) THEN entries[key] ELSE NoEntry]
    /\ UNCHANGED <<entries, currentSize, now, readers, observed>>
    /\ CacheFrame

Set(key, entry) ==
    /\ NoReaders
    /\ \E res \in (IF currentSize + entry.Size > maxSize
                 THEN evictLRU(entries, currentSize, entry.Size, << >>)
                 ELSE {[entries |-> entries, currentSize |-> currentSize, evicted |-> << >>]}) :
          /\ entries' = With(res.entries, key, entry)
          /\ currentSize' = (IF key \in DOMAIN res.entries
                             THEN res.currentSize - res.entries[key].Size
                             ELSE res.currentSize) + entry.Size
          /\ last' = [op |-> "Set", key |-> key, entry |-> entry, evicted |-> res.evicted]
    /\ UNCHANGED <<hitCount, missCount, now, readers, observed>>
    /\ CacheFrame

\* A Delete that removes the entry and leaves currentSize alone: not what
\* Delete does.
DeleteKeepsSize(key) ==
    /\ NoReaders
    /\ entries' = Without(entries, key)
    /\ last' = [op |-> "Delete", key |-> key]
    /\ UNCHANGED <<currentSize, hitCount, missCount, now, readers, observed>>
    /\ CacheFrame

Delete(key) ==
    /\ NoReaders
    /\ IF key \in DOMAIN entries
       THEN /\ currentSize' = currentSize - entries[key].Size
            /\ entries' = Without(entries, key)
       ELSE UNCHANGED <<entries, currentSize>>
    /\ last' = [op |-> "Delete", key |-> key]
    /\ UNCHANGED <<hitCount, missCount, now, readers, observed>>
    /\ CacheFrame

\* A Clear that starts the counters afresh as well: not what Clear does.
ClearResetsCounters ==
    /\ NoReaders
    /\ entries' = << >>
    /\ currentSize' = 0
    /\ hitCount' = 0
    /\ missCount' = 0
    /\ last' = [op |-> "Clear"]
    /\ UNCHANGED <<now, readers, observed>>
    /\ CacheFrame

Clear ==
    /\ NoReaders
    /\ entries' = << >>
    /\ currentSize' = 0
    /\ last' = [op |-> "Clear"]
    /\ UNCHANGED <<hitCount, missCount, now, readers, observed>>
    /\ CacheFrame

RECURSIVE SumSizes(_, _)
SumSizes(ents, S) ==
    IF S = {} THEN 0
    ELSE LET k == CHOOSE x \in S : TRUE IN ents[k].Size + SumSizes(ents, S \ {k})

\* A sweep that deletes the expired entries and leaves currentSize alone: not
\* what cleanupExpired does.
cleanupKeepsSize ==
    /\ NoReaders
    /\ LET gone == {k \in DOMAIN entries : Expired(entries[k], now)} IN
          /\ entries' = [k \in DOMAIN entries \ gone |-> entries[k]]
          /\ last' = [op |-> "cleanupExpired", removed |-> gone]
    /\ UNCHANGED <<currentSize, hitCount, missCount, now, readers, observed>>
    /\ CacheFrame

\* One tick of cleanupExpired's ticker: the body of its loop.
cleanupExpired ==
    /\ NoReaders
    /\ LET gone == {k \in DOMAIN entries : Expired(entries[k], now)} IN
          /\ entries' = [k \in DOMAIN entries \ gone |-> entries[k]]
          /\ currentSize' = currentSize - SumSizes(entries, gone)
          /\ last' = [op |-> "cleanupExpired", removed |-> gone]
    /\ UNCHANGED <<hitCount, missCount, now, readers, observed>>
    /\ CacheFrame

\* The clock advances.
Tick ==
    /\ now < MaxTime
    /\ now' = now + 1
    /\ last' = [op |-> "Tick"]
    /\ UNCHANGED <<cacheVars, certVars, pureVars, proxyVars, connectVars, servedVars, forwardVars, poolVars, tierVars>>

\* Get up to the load half of its counter increment: RLock, the lookup, and the
\* read of hitCount or missCount. RLock admits any number of readers, so the
\* increment is not atomic between two Gets.
GetEnter(g, key) ==
    /\ readers[g] = Idle
    /\ LET found == Found(entries, key, now)
           tmp == IF found THEN hitCount ELSE missCount IN
          /\ tmp < MaxCount
          /\ readers' = [readers EXCEPT ![g] =
                            [pc |-> "incr", key |-> key, found |-> found, tmp |-> tmp]]
    /\ UNCHANGED <<entries, currentSize, hitCount, missCount, now, last, observed>>
    /\ CacheFrame

\* The store half of the increment, RUnlock and the return.
GetExit(g) ==
    /\ readers[g] # Idle
    /\ IF readers[g].found
       THEN hitCount' = readers[g].tmp + 1 /\ missCount' = missCount
       ELSE missCount' = readers[g].tmp + 1 /\ hitCount' = hitCount
    /\ last' = [op |-> "Get", key |-> readers[g].key, found |-> readers[g].found]
    /\ readers' = [readers EXCEPT ![g] = Idle]
    /\ UNCHANGED <<entries, currentSize, now, observed>>
    /\ CacheFrame

\* Stats holds RLock too, so it runs beside any Get in flight.
Stats ==
    /\ observed' = [hits |-> hitCount, misses |-> missCount,
                    size |-> currentSize, entries |-> Cardinality(DOMAIN entries)]
    /\ UNCHANGED <<entries, currentSize, hitCount, missCount, now, last, readers>>
    /\ CacheFrame

Next ==
    \/ \E key \in Keys : hitCount + missCount < MaxGets /\ Get(key)
    \/ \E key \in Keys, entry \in CacheEntry : Set(key, entry)
    \/ \E key \in Keys : Delete(key)
    \/ Clear
    \/ cleanupExpired
    \/ Tick

\* The same operations on two keys only, with up to MaxSeqGets calls of Get.
TwoKeys == {"k1", "k2"}

NextTwoKeys ==
    \/ \E key \in TwoKeys : hitCount + missCount < MaxSeqGets /\ Get(key)
    \/ \E key \in TwoKeys, entry \in CacheEntry : Set(key, entry)
    \/ \E key \in TwoKeys : Delete(key)
    \/ Clear
    \/ cleanupExpired
    \/ Tick

-----------------------------------------------------------------------------
(* internal/cert: CertManager *)

Hosts == {"a.test", "b.test"}
\* GetCertificate is called at most MaxCalls times.
MaxCalls == 4
\* The validity of a leaf, in clock units: AddDate(1, 0, 0).
OneYear == 365

NoCert == [id |-> 0]

InitCert ==
    /\ certMap = << >>
    /\ callers = [g \in Goroutines |-> Idle]
    /\ minted = << >>
    /\ results = << >>

\* A leaf assembled without the CA certificate behind it: not what
\* generateCertificate does.
generateCertificateLeafOnly(hostname, t, id) ==
    [id |-> id,
     SerialNumber |-> t,
     CommonName |-> hostname,
     DNSNames |-> <<hostname>>,
     NotBefore |-> t,
     NotAfter |-> t + OneYear,
     Chain |-> <<"leaf">>,
     PrivateKey |-> id]

\* The leaf generateCertificate builds for hostname at time t; id stands for the
\* freshly allocated tls.Certificate and its freshly generated private key.
generateCertificate(hostname, t, id) ==
    [id |-> id,
     SerialNumber |-> t,
     CommonName |-> hostname,
     DNSNames |-> <<hostname>>,
     NotBefore |-> t,
     NotAfter |-> t + OneYear,
     Chain |-> <<"leaf", "ca">>,
     PrivateKey |-> id]

\* The start of GetCertificate(hostname): certMap.Load. A hit returns the cached
\* certificate at once; a miss goes on to generate one.
CertLoad(g, hostname) ==
    /\ callers[g] = Idle
    /\ Len(results) + Cardinality({c \in Goroutines : callers[c] # Idle}) < MaxCalls
    /\ IF hostname \in DOMAIN certMap
       THEN /\ results' = Append(results, [hostname |-> hostname, cert |-> certMap[hostname]])
            /\ UNCHANGED callers
       ELSE /\ callers' = [callers EXCEPT ![g] = [pc |-> "generate", hostname |-> hostname]]
            /\ UNCHANGED results
    /\ UNCHANGED <<certMap, minted>>
    /\ CertFrame

\* generateCertificate succeeds: a new key, a new signed leaf.
CertGenerate(g) ==
    /\ callers[g] # Idle /\ callers[g].pc = "generate"
    /\ LET cert == generateCertificate(callers[g].hostname, now, Len(minted) + 1) IN
          /\ minted' = Append(minted, cert)
          /\ callers' = [callers EXCEPT ![g] =
                            [pc |-> "store", hostname |-> callers[g].hostname, cert |-> cert]]
    /\ UNCHANGED <<certMap, results>>
    /\ CertFrame

\* generateCertificate fails (key generation or signing): GetCertificate
\* returns the error and stores nothing.
CertGenerateFails(g) ==
    /\ callers[g] # Idle /\ callers[g].pc = "generate"
    /\ results' = Append(results, [hostname |-> callers[g].hostname, cert |-> NoCert])
    /\ callers' = [callers EXCEPT ![g] = Idle]
    /\ UNCHANGED <<certMap, minted>>
    /\ CertFrame

\* certMap.Store and the return of the certificate just generated.
CertStore(g) ==
    /\ callers[g] # Idle /\ callers[g].pc = "store"
    /\ certMap' = With(certMap, callers[g].hostname, callers[g].cert)
    /\ results' = Append(results, [hostname |-> callers[g].hostname, cert |-> callers[g].cert])
    /\ callers' = [callers EXCEPT ![g] = Idle]
    /\ UNCHANGED minted
    /\ CertFrame

\* Concurrent GetCertificate calls, with the clock running.
NextCert ==
    \/ \E g \in Goroutines, hostname \in Hosts : CertLoad(g, hostname)
    \/ \E g \in Goroutines : CertGenerate(g)
    \/ \E g \in Goroutines : CertGenerateFails(g)
    \/ \E g \in Goroutines : CertStore(g)
    \/ Tick


-----------------------------------------------------------------------------
(* net/http: strings and headers as the code uses them *)

\* strings.Contains(s, substr)
Contains(s, substr) ==
    \E i \in 1..(Len(s) - Len(substr) + 1) : SubSeq(s, i, i + Len(substr) - 1) = substr

Lowers == "abcdefghijklmnopqrstuvwxyz"
Uppers == "ABCDEFGHIJKLMNOPQRSTUVWXYZ"

\* The position of the one-character string c in alphabet, 0 when it is not in it.
IndexIn(alphabet, c) ==
    IF \E i \in 1..Len(alphabet) : SubSeq(alphabet, i, i) = c
    THEN CHOOSE i \in 1..Len(alphabet) : SubSeq(alphabet, i, i) = c
    ELSE 0

ToUpper(c) == IF IndexIn(Lowers, c) = 0 THEN c
              ELSE SubSeq(Uppers, IndexIn(Lowers, c), IndexIn(Lowers, c))
ToLower(c) == IF IndexIn(Uppers, c) = 0 THEN c
              ELSE SubSeq(Lowers, IndexIn(Uppers, c), IndexIn(Uppers, c))

\* textproto.CanonicalMIMEHeaderKey: the first letter and every letter after a
\* hyphen in upper case, the rest in lower case.
RECURSIVE Canonical(_, _, _)
Canonical(name, i, upper) ==
    IF i > Len(name) THEN ""
    ELSE LET c == SubSeq(name, i, i) IN
         (IF upper THEN ToUpper(c) ELSE ToLower(c)) \o Canonical(name, i + 1, c = "-")

CanonicalMIMEHeaderKey(name) == Canonical(name, 1, TRUE)

\* http.Header: canonical name -> the sequence of its values.
\* Header.Get: the first value of the name, "" when there is none.
HeaderGet(h, name) ==
    LET key == CanonicalMIMEHeaderKey(name) IN
    IF key \in DOMAIN h /\ Len(h[key]) > 0 THEN h[key][1] ELSE ""

\* Header.Add
HeaderAdd(h, name, value) ==
    LET key == CanonicalMIMEHeaderKey(name) IN
    With(h, key, IF key \in DOMAIN h THEN Append(h[key], value) ELSE <<value>>)

\* Header.Del
HeaderDel(h, name) == Without(h, CanonicalMIMEHeaderKey(name))

\* The header the server parses from the lines a peer sent, in order.
RECURSIVE ParseHeader(_, _)
ParseHeader(lines, n) ==
    IF n = 0 THEN << >>
    ELSE HeaderAdd(ParseHeader(lines, n - 1), lines[n].name, lines[n].value)

\* Sequences over S of length at most n.
SeqUpTo(S, n) == UNION {[1..m -> S] : m \in 0..n}

-----------------------------------------------------------------------------
(* internal/cache: IsCacheable *)

Methods == {"GET", "POST", "HEAD"}
StatusCodes == {199, 200, 299, 300, 404}
CacheControlValues ==
    {"no-store", "no-cache", "private", "public", "max-age=60", "max-age=60, private"}
AuthorizationValues == {"", "Bearer t"}
\* A header of the model carries at most MaxLines lines of one name.
MaxLines == 2

\* The requests and responses IsCacheable is applied to.
CacheRequests ==
    {[Method |-> m, Header |-> ParseHeader(lines, Len(lines))] :
        m \in Methods,
        lines \in SeqUpTo([name : {"Authorization"}, value : AuthorizationValues], 1)}

CacheResponses ==
    {[StatusCode |-> c, Header |-> ParseHeader(lines, Len(lines))] :
        c \in StatusCodes,
        lines \in SeqUpTo([name : {"Cache-Control"}, value : CacheControlValues], MaxLines)}

IsCacheable(r, resp) ==
    IF r.Method # "GET" THEN FALSE
    ELSE IF resp.StatusCode < 200 \/ resp.StatusCode >= 300 THEN FALSE
    ELSE LET cacheControl == HeaderGet(resp.Header, "Cache-Control") IN
         IF Contains(cacheControl, "no-store") \/ Contains(cacheControl, "no-cache") THEN FALSE
         ELSE IF Contains(cacheControl, "private") THEN FALSE
         ELSE IF HeaderGet(r.Header, "Authorization") # "" THEN FALSE
         ELSE TRUE

NotCalled == [fn |-> "none"]

InitPure ==
    /\ call = NotCalled
    /\ ret = NotCalled

\* The calls of IsCacheable the model makes.
IsCacheableCalls ==
    {[fn |-> "IsCacheable", r |-> r, resp |-> resp] :
        r \in CacheRequests, resp \in CacheResponses}

\* The pending call of IsCacheable runs and returns.
CallIsCacheable ==
    /\ call.fn = "IsCacheable" /\ ret = NotCalled
    /\ ret' = [fn |-> "IsCacheable", value |-> IsCacheable(call.r, call.resp)]
    /\ UNCHANGED call
    /\ PureFrame

NextPure ==
    \/ CallIsCacheable

-----------------------------------------------------------------------------
(* pkg/pool: the pool of bytes.Buffer and the pool of byte slices *)

\* const defaultBufferSize = 32 * 1024; Server passes the same size to
\* NewBufferPool.
defaultBufferSize == 32768
\* The New function of the pools is called at most MaxBuffers times.
MaxBuffers == 2
\* A goroutine writes to the buffer it holds at most MaxWrites times.
MaxWrites == 2
\* The number of bytes one Write appends.
WriteSizes == {9, 40000}

\* A buffer: its kind, the length and capacity of its slice, the goroutines whose
\* bytes lie in the backing array and those whose bytes lie within the length,
\* and the number of writes of its present holder.
NewBuffer(kind, len) ==
    [kind |-> kind, len |-> len, cap |-> defaultBufferSize,
     array |-> {}, written |-> {}, writes |-> 0]

\* bytes.NewBuffer(make([]byte, 0, defaultBufferSize)), the New of bufferPool.
NewBytesBuffer == NewBuffer("bytes.Buffer", 0)

\* make([]byte, size), the New of NewBufferPool(size).
NewByteSlice == NewBuffer("[]byte", defaultBufferSize)

\* No buffer exists, the pools are empty and no goroutine holds a buffer.
InitPool ==
    pool = [bufs |-> << >>, free |-> {}, held |-> [g \in Goroutines |-> 0]]

\* sync.Pool.Get for goroutine g: one of the pooled buffers of the kind, or what
\* New returns. A pool may drop what it holds, so New is possible at any time.
PoolGet(g, kind, fresh) ==
    /\ pool.held[g] = 0
    /\ \/ \E i \in pool.free :
             /\ pool.bufs[i].kind = kind
             /\ pool' = [pool EXCEPT !.free = @ \ {i}, !.held[g] = i]
       \/ /\ Len(pool.bufs) < MaxBuffers
          /\ pool' = [pool EXCEPT !.bufs = Append(@, fresh),
                                  !.held[g] = Len(pool.bufs) + 1]
    /\ PoolFrame

\* GetBuffer()
GetBuffer(g) == PoolGet(g, "bytes.Buffer", NewBytesBuffer)

\* BufferPool.Get()
BufferPoolGet(g) == PoolGet(g, "[]byte", NewByteSlice)

\* buf.Write(data) with n bytes of data, on the bytes.Buffer g holds: the
\* buffer grows to twice its capacity, or to what the data needs, when the
\* data does not fit, and only the bytes within the length move along.
BufferWrite(g, n) ==
    /\ pool.held[g] # 0
    /\ LET i == pool.held[g]
           b == pool.bufs[i]
           fits == b.len + n <= b.cap IN
       /\ b.kind = "bytes.Buffer"
       /\ b.writes < MaxWrites
       /\ pool' = [pool EXCEPT !.bufs[i] =
                      [b EXCEPT !.len = b.len + n,
                                !.cap = IF fits THEN b.cap
                                        ELSE IF 2 * b.cap > b.len + n THEN 2 * b.cap
                                        ELSE b.len + n,
                                !.array = IF fits THEN b.array \cup {g}
                                          ELSE b.written \cup {g},
                                !.written = b.written \cup {g},
                                !.writes = b.writes + 1]]
    /\ PoolFrame

\* io.CopyBuffer(w, resp.Body, buf) with the buffer g holds as scratch space,
\* buf.Bytes()[:cap(buf.Bytes())] for a bytes.Buffer: the body passes through
\* the backing array, the length stays.
CopyBuffer(g) ==
    /\ pool.held[g] # 0
    /\ LET i == pool.held[g]
           b == pool.bufs[i] IN
       /\ g \notin b.array
       /\ pool' = [pool EXCEPT !.bufs[i] =
                      [b EXCEPT !.array = b.array \cup {g},
                                !.written = IF b.len > 0 THEN b.written \cup {g}
                                                         ELSE b.written]]
    /\ PoolFrame

\* PutBuffer(buf): buf.Reset(), then bufferPool.Put(buf).
PutBuffer(g) ==
    /\ pool.held[g] # 0
    /\ LET i == pool.held[g]
           b == pool.bufs[i] IN
       /\ b.kind = "bytes.Buffer"
       /\ pool' = [pool EXCEPT !.bufs[i] = [b EXCEPT !.len = 0, !.written = {},
                                                     !.writes = 0],
                               !.free = @ \cup {i},
                               !.held[g] = 0]
    /\ PoolFrame

\* BufferPool.Put(buf): buf = buf[:cap(buf)], then bp.pool.Put(&buf).
BufferPoolPut(g) ==
    /\ pool.held[g] # 0
    /\ LET i == pool.held[g]
           b == pool.bufs[i] IN
       /\ b.kind = "[]byte"
       /\ pool' = [pool EXCEPT !.bufs[i] = [b EXCEPT !.len = b.cap,
                                                     !.written = b.array,
                                                     !.writes = 0],
                               !.free = @ \cup {i},
                               !.held[g] = 0]
    /\ PoolFrame

\* Goroutines that take a buffer, use it and give it back to the pool it came
\* from.
NextPool ==
    \/ \E g \in Goroutines : GetBuffer(g)
    \/ \E g \in Goroutines : BufferPoolGet(g)
    \/ \E g \in Goroutines, n \in WriteSizes : BufferWrite(g, n)
    \/ \E g \in Goroutines : CopyBuffer(g)
    \/ \E g \in Goroutines : PutBuffer(g)
    \/ \E g \in Goroutines : BufferPoolPut(g)

-----------------------------------------------------------------------------
(* internal/proxy: the plain-HTTP handlers of Server and ProxyServer *)

NoRequest == [Method |-> ""]
NoResponse == [StatusCode |-> 0]
\* RoundTrip has not returned.
NoResult == [err |-> "not called"]
\* No outbound request has been handed to the transport, and the client is connected.
NoFlight == [state |-> "none", ctx |-> "none", clientGone |-> FALSE]

\* The header names a client spells its lines with.
ClientHeaderNames ==
    {"Connection", "Proxy-Connection", "Keep-Alive", "Proxy-Authorization",
     "TE", "te", "Transfer-Encoding", "Upgrade", "Accept", "x-custom"}

\* The requests a client sends: the server has parsed the header lines.
ClientRequests ==
    {[Method |-> m, URL |-> u, Host |-> "origin.test",
      Header |-> ParseHeader(lines, Len(lines))] :
        m \in {"GET", "POST"},
        u \in [Scheme : {"", "http"}, Host : {"", "origin.test"}, Path : {"/"}],
        lines \in SeqUpTo([name : ClientHeaderNames, value : {"v"}], MaxLines)}

\* What the network does with a request the transport can send.
Upstream ==
    {[err |-> "connection refused"],
     [err |-> "", StatusCode |-> 200, Header |-> [Server |-> <<"origin">>], Body |-> "A"]}

\* transport.RoundTrip(req), the network answering with net: a request without
\* a scheme the transport supports, or without a host, fails before it is sent.
RoundTrip(req, net) ==
    IF req.URL.Scheme \notin {"http", "https"} THEN [err |-> "unsupported protocol scheme"]
    ELSE IF req.URL.Host = "" THEN [err |-> "no Host in request URL"]
    ELSE net

hopHeaders ==
    <<"Connection", "Proxy-Connection", "Keep-Alive", "Proxy-Authenticate",
      "Proxy-Authorization", "Te", "Trailer", "Transfer-Encoding", "Upgrade">>

\* removeHopHeaders(h): h.Del of the first n names of hopHeaders.
RECURSIVE DelHopHeaders(_, _)
DelHopHeaders(h, n) ==
    IF n = 0 THEN h ELSE HeaderDel(DelHopHeaders(h, n - 1), hopHeaders[n])

removeHopHeaders(h) == DelHopHeaders(h, Len(hopHeaders))

\* The inner loop `for _, value := range values { dst.Add(name, value) }` over
\* the first n values.
RECURSIVE AddValues(_, _, _, _)
AddValues(dst, name, values, n) ==
    IF n = 0 THEN dst
    ELSE HeaderAdd(AddValues(dst, name, values, n - 1), name, values[n])

\* The loop `for name, values := range src` over the names in S.
RECURSIVE copyHeaders(_, _, _)
copyHeaders(dst, src, S) ==
    IF S = {} THEN dst
    ELSE LET name == CHOOSE x \in S : TRUE IN
         copyHeaders(AddValues(dst, name, src[name], Len(src[name])), src, S \ {name})

\* An error response that names only the status: not what http.Error writes.
httpErrorStatusOnly(msg, code) ==
    [StatusCode |-> code,
     Header |-> ("Content-Type" :> <<"text/plain; charset=utf-8">>)
                @@ ("X-Content-Type-Options" :> <<"nosniff">>),
     Body |-> "Bad Gateway\n"]

\* http.Error(w, msg, code)
httpError(msg, code) ==
    [StatusCode |-> code,
     Header |-> ("Content-Type" :> <<"text/plain; charset=utf-8">>)
                @@ ("X-Content-Type-Options" :> <<"nosniff">>),
     Body |-> msg \o "\n"]

InitProxy ==
    /\ handler = "none"
    /\ clientReq = NoRequest
    /\ outReq = NoRequest
    /\ w = NoResponse
    /\ upstreamResp = NoResult
    /\ served = << >>
    /\ flight = NoFlight
    /\ InitPool
    /\ InitTier

\* Server.handleHTTP on the pending request, the network answering with net.
ServerHandleHTTP(net) ==
    /\ handler = "none" /\ clientReq # NoRequest
    /\ LET header == removeHopHeaders(clientReq.Header)
           req == [Method |-> clientReq.Method,
                   URL |-> [Scheme |-> IF clientReq.URL.Scheme = "" THEN "http"
                                                                    ELSE clientReq.URL.Scheme,
                            Host |-> IF clientReq.URL.Host = "" THEN clientReq.Host
                                                                ELSE clientReq.URL.Host,
                            Path |-> clientReq.URL.Path],
                   Host |-> clientReq.Host,
                   Header |-> header]
           res == RoundTrip(req, net) IN
          /\ outReq' = req
          /\ upstreamResp' = res
          /\ w' = IF res.err # ""
                  THEN httpError("Proxy error: " \o res.err, 502)
                  ELSE [StatusCode |-> res.StatusCode,
                        Header |-> copyHeaders(<< >>, res.Header, DOMAIN res.Header),
                        Body |-> res.Body]
    /\ handler' = "Server"
    /\ UNCHANGED clientReq
    /\ ProxyFrame

\* ProxyServer.handleHTTP on the pending request, the network answering with net.
\* http.NewRequest accepts every method and URL of ClientRequests, so the
\* handler's 400 answer is not among the outcomes.
ProxyServerHandleHTTP(net) ==
    /\ handler = "none" /\ clientReq # NoRequest
    /\ LET req == [Method |-> clientReq.Method,
                   URL |-> clientReq.URL,
                   Host |-> clientReq.URL.Host,
                   Header |-> copyHeaders(<< >>, clientReq.Header, DOMAIN clientReq.Header)]
           res == RoundTrip(req, net) IN
          /\ outReq' = req
          /\ upstreamResp' = res
          /\ w' = IF res.err # ""
                  THEN httpError(res.err, 502)
                  ELSE [StatusCode |-> res.StatusCode,
                        Header |-> copyHeaders(<< >>, res.Header, DOMAIN res.Header),
                        Body |-> res.Body]
    /\ handler' = "ProxyServer"
    /\ UNCHANGED clientReq
    /\ ProxyFrame

NextProxy ==
    \/ \E net \in Upstream : ServerHandleHTTP(net)
    \/ \E net \in Upstream : ProxyServerHandleHTTP(net)

\* The plain-HTTP handlers step by step: the outbound request is handed to the
\* transport, the origin holds it for as long as it likes, and the client may
\* go away at any moment before the handler has answered.

\* The request Server.handleHTTP forwards: r.Clone(r.Context()) with scheme and
\* host filled in.
ServerOutReq(r) ==
    [Method |-> r.Method,
     URL |-> [Scheme |-> IF r.URL.Scheme = "" THEN "http" ELSE r.URL.Scheme,
              Host |-> IF r.URL.Host = "" THEN r.Host ELSE r.URL.Host,
              Path |-> r.URL.Path],
     Host |-> r.Host,
     Header |-> removeHopHeaders(r.Header)]

\* The request ProxyServer.handleHTTP forwards: http.NewRequest(r.Method,
\* r.URL.String(), r.Body) with the client's header lines added.
ProxyServerOutReq(r) ==
    [Method |-> r.Method,
     URL |-> r.URL,
     Host |-> r.URL.Host,
     Header |-> copyHeaders(<< >>, r.Header, DOMAIN r.Header)]

\* The transport has sent the request and waits for the origin.
Sent == [err |-> "", StatusCode |-> 0]

\* A handler hands req to transport.RoundTrip; ctx is the context req carries.
\* A request the transport cannot send fails at once, and so does one whose
\* context is already done.
BeginRoundTrip(name, req, ctx, prefix) ==
    /\ handler = "none" /\ clientReq # NoRequest /\ flight.state = "none"
    /\ handler' = name
    /\ outReq' = req
    /\ LET res == IF ctx = "request" /\ flight.clientGone
                  THEN [err |-> "context canceled"]
                  ELSE RoundTrip(req, Sent) IN
       IF res = Sent
       THEN /\ flight' = [flight EXCEPT !.state = "inflight", !.ctx = ctx]
            /\ UNCHANGED <<w, upstreamResp>>
       ELSE /\ flight' = [flight EXCEPT !.state = "failed", !.ctx = ctx]
            /\ upstreamResp' = res
            /\ w' = httpError(prefix \o res.err, 502)
    /\ UNCHANGED clientReq
    /\ ForwardFrame

\* Server.handleHTTP up to the call of RoundTrip: the clone carries r.Context().
ServerRoundTrip ==
    BeginRoundTrip("Server", ServerOutReq(clientReq), "request", "Proxy error: ")

\* ProxyServer.handleHTTP up to the call of RoundTrip: http.NewRequest gives the
\* request context.Background().
ProxyServerRoundTrip ==
    BeginRoundTrip("ProxyServer", ProxyServerOutReq(clientReq), "background", "")

\* The client closes its connection: net/http cancels r.Context().
ClientDisconnect ==
    /\ clientReq # NoRequest /\ w = NoResponse
    /\ ~flight.clientGone
    /\ flight' = [flight EXCEPT !.clientGone = TRUE]
    /\ UNCHANGED proxyVars
    /\ ForwardFrame

\* The origin answers the request in flight and the handler copies the answer.
OriginResponds(net) ==
    /\ flight.state = "inflight"
    /\ flight' = [flight EXCEPT !.state = IF net.err = "" THEN "response" ELSE "failed"]
    /\ upstreamResp' = net
    /\ w' = IF net.err # ""
            THEN httpError((IF handler = "Server" THEN "Proxy error: " ELSE "") \o net.err, 502)
            ELSE [StatusCode |-> net.StatusCode,
                  Header |-> copyHeaders(<< >>, net.Header, DOMAIN net.Header),
                  Body |-> net.Body]
    /\ UNCHANGED <<handler, clientReq, outReq>>
    /\ ForwardFrame

\* The transport sees the Done channel of the context the request in flight
\* carries, abandons the request and returns the context's error.
TransportCancel ==
    /\ flight.state = "inflight"
    /\ flight.ctx = "request" /\ flight.clientGone
    /\ flight' = [flight EXCEPT !.state = "canceled"]
    /\ upstreamResp' = [err |-> "context canceled"]
    /\ w' = httpError((IF handler = "Server" THEN "Proxy error: " ELSE "") \o "context canceled", 502)
    /\ UNCHANGED <<handler, clientReq, outReq>>
    /\ ForwardFrame

NextForward ==
    \/ ServerRoundTrip
    \/ ProxyServerRoundTrip
    \/ ClientDisconnect
    \/ \E net \in Upstream : OriginResponds(net)
    \/ TransportCancel

-----------------------------------------------------------------------------
(* internal/proxy: the CONNECT handlers of Server and ProxyServer *)

NoConn == [pc |-> "idle"]

InitConnect == conn = NoConn

\* The positions of ":" in s.
Colons(s) == {i \in 1..Len(s) : SubSeq(s, i, i) = ":"}

\* net.SplitHostPort(hostport), for the targets without brackets.
SplitHostPort(hostport) ==
    IF Colons(hostport) = {}
    THEN [host |-> "", port |-> "", err |-> "missing port in address"]
    ELSE IF Cardinality(Colons(hostport)) > 1
    THEN [host |-> "", port |-> "", err |-> "too many colons in address"]
    ELSE LET i == CHOOSE x \in Colons(hostport) : TRUE IN
         [host |-> SubSeq(hostport, 1, i - 1),
          port |-> SubSeq(hostport, i + 1, Len(hostport)),
          err |-> ""]

\* The address the transport dials for an https URL: port 443 unless the
\* URL's host names one.
canonicalAddr(host) ==
    IF SplitHostPort(host).err = "" THEN host ELSE host \o ":443"

\* The CONNECT targets a client names: r.Host and r.URL.Host of the request.
Targets == {"origin.test:443", "origin.test", "origin.test:8443"}

Variants == {"Server", "ProxyServer"}

Established == "HTTP/1.1 200 Connection Established\r\n\r\n"

\* The requests a client sends inside the intercepted TLS session.
InnerRequests ==
    {[Method |-> m, URL |-> [Scheme |-> "", Host |-> "", Path |-> "/"],
      Host |-> "origin.test", Header |-> << >>] : m \in {"GET", "POST"}}

\* A CONNECT request for target has reached handleConnect of variant.
Received(variant, target) ==
    [pc |-> "received", variant |-> variant, target |-> target,
     sock |-> << >>, tlsOut |-> << >>, log |-> << >>, closed |-> FALSE,
     upstream |-> "none"]

\* What the return of the handler does to the connection toward the origin.
\* Server.handleConnect dialled it and closes it, defer targetConn.Close().
\* ProxyServer.handleConnect closes the response body, defer resp.Body.Close():
\* the transport keeps the connection of a body that was read to its end and
\* closes the connection of one that was not.
UpstreamAtReturn(c, bodyRead) ==
    IF c.upstream # "open" THEN c.upstream
    ELSE IF c.variant = "Server" THEN "closed"
    ELSE IF bodyRead THEN "idle"
    ELSE "closed"

\* A return that leaves the client socket as it is: not what the deferred
\* clientConn.Close() does.
ReturnSocketOpen(c) ==
    [c EXCEPT !.pc = "done", !.upstream = UpstreamAtReturn(c, FALSE)]

\* The handler returns after a successful Hijack: the deferred
\* clientConn.Close() runs.
Return(c) ==
    [c EXCEPT !.pc = "done", !.closed = TRUE, !.log = Append(@, [op |-> "Close"]),
              !.upstream = UpstreamAtReturn(c, FALSE)]

\* The return after resp.Write has copied the whole response into the TLS
\* connection.
ReturnWritten(c) ==
    [Return(c) EXCEPT !.upstream = UpstreamAtReturn(c, TRUE)]

Logged(c, event) == [c EXCEPT !.log = Append(@, event)]

\* The type assertion w.(http.Hijacker) and hijacker.Hijack().
ConnectHijack(outcome) ==
    /\ conn.pc = "received"
    /\ CASE outcome = "ok" ->
              /\ conn' = [Logged(conn, [op |-> "Hijack"]) EXCEPT !.pc = "hijacked"]
              /\ UNCHANGED w
         [] outcome = "unsupported" ->
              /\ conn' = [conn EXCEPT !.pc = "done"]
              /\ w' = httpError("Hijacking not supported", 500)
         [] outcome = "error" ->
              /\ conn' = [conn EXCEPT !.pc = "done"]
              /\ IF conn.variant = "Server"
                 THEN w' = httpError("hijack failed", 503)
                 ELSE UNCHANGED w
    /\ UNCHANGED <<handler, clientReq, outReq, upstreamResp>>
    /\ ConnectFrame

\* clientConn.Write of the 200 Connection Established line.
ConnectWrite200(ok) ==
    /\ conn.pc = "hijacked"
    /\ conn' = IF ok
               THEN [Logged(conn, [op |-> "Write200"])
                        EXCEPT !.pc = "tunneled", !.sock = Append(@, Established)]
               ELSE Return(conn)
    /\ UNCHANGED proxyVars
    /\ ConnectFrame

\* The hostname the handler asks a certificate for.
CertHostname(variant, target) ==
    LET split == SplitHostPort(target) IN
    IF variant = "Server"
    THEN IF split.host = "" THEN target ELSE split.host
    ELSE IF split.err # "" THEN target ELSE split.host

\* A handler that asks for the certificate before it has answered the
\* CONNECT: not what handleConnect does.
ConnectGetCertEarly(ok) ==
    /\ conn.pc = "hijacked"
    /\ LET c == Logged(conn, [op |-> "GetCertificate",
                              hostname |-> CertHostname(conn.variant, conn.target),
                              ok |-> ok]) IN
       conn' = IF ok THEN [c EXCEPT !.pc = "certified"] ELSE Return(c)
    /\ UNCHANGED proxyVars
    /\ ConnectFrame

\* The call of the certificate manager for the hostname.
ConnectGetCert(ok) ==
    /\ conn.pc = "tunneled"
    /\ LET c == Logged(conn, [op |-> "GetCertificate",
                              hostname |-> CertHostname(conn.variant, conn.target),
                              ok |-> ok]) IN
       conn' = IF ok THEN [c EXCEPT !.pc = "certified"] ELSE Return(c)
    /\ UNCHANGED proxyVars
    /\ ConnectFrame

\* A handler that answers a failed handshake with an error response on the
\* client socket: not what handleConnect does.
ConnectHandshakeAnswers(ok) ==
    /\ conn.pc = "certified"
    /\ LET c == Logged(conn, [op |-> "Handshake", ok |-> ok]) IN
       conn' = IF ok THEN [c EXCEPT !.pc = "intercepted"]
               ELSE Return([c EXCEPT !.sock = Append(@, "HTTP/1.1 502 Bad Gateway\r\n\r\n")])
    /\ UNCHANGED proxyVars
    /\ ConnectFrame

\* tls.Server(clientConn, tlsConfig).Handshake()
ConnectHandshake(ok) ==
    /\ conn.pc = "certified"
    /\ LET c == Logged(conn, [op |-> "Handshake", ok |-> ok]) IN
       conn' = IF ok THEN [c EXCEPT !.pc = "intercepted"] ELSE Return(c)
    /\ UNCHANGED proxyVars
    /\ ConnectFrame

\* http.ReadRequest on the TLS connection: req is what the client sent, or
\* NoRequest when the read fails.
ConnectReadRequest(req) ==
    /\ conn.pc = "intercepted"
    /\ LET c == Logged(conn, [op |-> "ReadRequest"]) IN
       conn' = IF req # NoRequest THEN [c EXCEPT !.pc = "read"] ELSE Return(c)
    /\ clientReq' = req
    /\ UNCHANGED <<handler, outReq, w, upstreamResp>>
    /\ ConnectFrame

\* The inner request with the scheme and authority the handler gives it.
Rewritten(req, target) ==
    [req EXCEPT !.URL = [Scheme |-> "https", Host |-> target, Path |-> req.URL.Path]]

\* Server.handleConnect: tls.Dial("tcp", host, ...) toward the origin. An
\* address without a port is rejected before the network is tried.
ConnectDial(reachable) ==
    /\ conn.pc = "read" /\ conn.variant = "Server"
    /\ LET err == IF SplitHostPort(conn.target).err # ""
                  THEN SplitHostPort(conn.target).err
                  ELSE IF reachable THEN "" ELSE "connection refused"
           c == Logged(conn, [op |-> "Dial", addr |-> conn.target, err |-> err]) IN
       conn' = IF err = "" THEN [c EXCEPT !.pc = "dialed", !.upstream = "open"]
               ELSE Return(c)
    /\ UNCHANGED proxyVars
    /\ ConnectFrame

\* Server.handleConnect: req.Write(targetConn)
ConnectWriteRequest(ok) ==
    /\ conn.pc = "dialed"
    /\ LET c == Logged(conn, [op |-> "WriteRequest"]) IN
       conn' = IF ok THEN [c EXCEPT !.pc = "sent"] ELSE Return(c)
    /\ outReq' = Rewritten(clientReq, conn.target)
    /\ UNCHANGED <<handler, clientReq, w, upstreamResp>>
    /\ ConnectFrame

\* Server.handleConnect: http.ReadResponse from the origin; net is what the
\* origin answers, or a failure of the read.
ConnectReadResponse(net) ==
    /\ conn.pc = "sent"
    /\ LET c == Logged(conn, [op |-> "ReadResponse", err |-> net.err]) IN
       conn' = IF net.err = "" THEN [c EXCEPT !.pc = "answered"] ELSE Return(c)
    /\ upstreamResp' = net
    /\ UNCHANGED <<handler, clientReq, outReq, w>>
    /\ ConnectFrame

\* ProxyServer.handleConnect: p.transport.RoundTrip(req), the network
\* answering with net.
ConnectRoundTrip(net) ==
    /\ conn.pc = "read" /\ conn.variant = "ProxyServer"
    /\ LET req == Rewritten(clientReq, conn.target)
           res == RoundTrip(req, net)
           c == Logged(conn, [op |-> "RoundTrip", addr |-> canonicalAddr(req.URL.Host),
                              err |-> res.err]) IN
          /\ conn' = IF res.err = "" THEN [c EXCEPT !.pc = "answered", !.upstream = "open"]
                     ELSE Return(c)
          /\ outReq' = req
          /\ upstreamResp' = res
    /\ UNCHANGED <<handler, clientReq, w>>
    /\ ConnectFrame

\* resp.Write on the TLS connection, then the return.
ConnectWriteResponse(ok) ==
    /\ conn.pc = "answered"
    /\ LET c == Logged(conn, [op |-> "WriteResponse"]) IN
       conn' = IF ok THEN ReturnWritten([c EXCEPT !.tlsOut = Append(@, upstreamResp)])
               ELSE Return(c)
    /\ UNCHANGED proxyVars
    /\ ConnectFrame

NextConnect ==
    \/ \E outcome \in {"ok", "unsupported", "error"} : ConnectHijack(outcome)
    \/ \E ok \in BOOLEAN : ConnectWrite200(ok)
    \/ \E ok \in BOOLEAN : ConnectGetCert(ok)
    \/ \E ok \in BOOLEAN : ConnectHandshake(ok)
    \/ \E req \in InnerRequests \cup {NoRequest} : ConnectReadRequest(req)
    \/ \E reachable \in BOOLEAN : ConnectDial(reachable)
    \/ \E ok \in BOOLEAN : ConnectWriteRequest(ok)
    \/ \E net \in Upstream : ConnectReadResponse(net)
    \/ \E net \in Upstream : ConnectRoundTrip(net)
    \/ \E ok \in BOOLEAN : ConnectWriteResponse(ok)

-----------------------------------------------------------------------------
(* cmd/proxy: the ServeMux in front of the proxy *)

\* The address the proxy itself listens on.
ProxyAddr == "proxy.test:1488"

\* The patterns main registers beside "/".
ControlRoutes == {"/ca.crt", "/stats", "/health"}

Paths == ControlRoutes \cup {"/", "/index.html"}

\* The non-CONNECT requests that arrive at the listener: origin-form requests
\* sent to the proxy itself, and absolute-form requests naming the proxy or an
\* origin.
RouteRequests ==
    {[Method |-> m,
      URL |-> [Scheme |-> IF host = "" THEN "" ELSE "http", Host |-> host, Path |-> path],
      Host |-> IF host = "" THEN ProxyAddr ELSE host,
      Header |-> << >>] :
        m \in {"GET", "POST", "HEAD"},
        host \in {"", ProxyAddr, "origin.test"},
        path \in Paths}

\* The pattern ServeMux selects for a request: patterns carry no host, so the
\* path alone decides; a pattern without a trailing slash matches its path only
\* and "/" matches everything else.
MuxMatch(r) == IF r.URL.Path \in ControlRoutes THEN r.URL.Path ELSE "/"

\* w.Write after the handler set the content type: an implicit 200.
Written(contentType, body) ==
    [StatusCode |-> 200, Header |-> ("Content-Type" :> <<contentType>>), Body |-> body]

\* The handler of "/ca.crt".
MuxCaCrt ==
    /\ handler = "none" /\ clientReq # NoRequest
    /\ MuxMatch(clientReq) = "/ca.crt"
    /\ w' = IF clientReq.Method # "GET"
            THEN httpError("Method not allowed", 405)
            ELSE [Written("application/x-x509-ca-cert", "CA certificate")
                     EXCEPT !.Header = @ @@ ("Content-Disposition" :>
                                <<"attachment; filename=\"4ebur-net-ca.crt\"">>)]
    /\ handler' = "/ca.crt"
    /\ UNCHANGED <<clientReq, outReq, upstreamResp>>
    /\ ProxyFrame

\* The handler of "/stats".
MuxStats ==
    /\ handler = "none" /\ clientReq # NoRequest
    /\ MuxMatch(clientReq) = "/stats"
    /\ w' = IF clientReq.Method # "GET"
            THEN httpError("Method not allowed", 405)
            ELSE Written("application/json",
                         [cache_hits |-> hitCount, cache_misses |-> missCount,
                          cache_size_bytes |-> currentSize,
                          cache_entries |-> Cardinality(DOMAIN entries)])
    /\ handler' = "/stats"
    /\ UNCHANGED <<clientReq, outReq, upstreamResp>>
    /\ ProxyFrame

\* The handler of "/health".
MuxHealth ==
    /\ handler = "none" /\ clientReq # NoRequest
    /\ MuxMatch(clientReq) = "/health"
    /\ w' = Written("application/json", "{\"status\":\"ok\",\"service\":\"4ebur-net\"}")
    /\ handler' = "/health"
    /\ UNCHANGED <<clientReq, outReq, upstreamResp>>
    /\ ProxyFrame

\* The handler of "/": proxyServer.ServeHTTP, which hands a non-CONNECT
\* request to handleHTTP.
MuxProxy(net) ==
    /\ MuxMatch(clientReq) = "/"
    /\ ProxyServerHandleHTTP(net)

\* A request served through the mux, or by a proxy that is the server's
\* handler itself.
NextRoute ==
    \/ MuxCaCrt
    \/ MuxStats
    \/ MuxHealth
    \/ \E net \in Upstream : MuxProxy(net)
    \/ \E net \in Upstream : ServerHandleHTTP(net)
    \/ \E net \in Upstream : ProxyServerHandleHTTP(net)

-----------------------------------------------------------------------------
(* The plain-HTTP handler with the response cache in front of the transport *)

\* The caching handler serves at most MaxServed requests.
MaxServed == 2

\* The maxAge NewHTTPCache falls back to, in seconds.
DefaultMaxAge == 300

Digits == "0123456789"

\* strings.HasPrefix(s, prefix)
HasPrefix(s, prefix) == Len(s) >= Len(prefix) /\ SubSeq(s, 1, Len(prefix)) = prefix

\* strings.TrimSpace(s), for blanks and tabs.
RECURSIVE TrimSpace(_)
TrimSpace(s) ==
    IF Len(s) > 0 /\ SubSeq(s, 1, 1) \in {" ", "\t"} THEN TrimSpace(SubSeq(s, 2, Len(s)))
    ELSE IF Len(s) > 0 /\ SubSeq(s, Len(s), Len(s)) \in {" ", "\t"}
    THEN TrimSpace(SubSeq(s, 1, Len(s) - 1))
    ELSE s

\* strings.Split(s, ",")
RECURSIVE Split(_)
Split(s) ==
    LET I == {i \in 1..Len(s) : SubSeq(s, i, i) = ","} IN
    IF I = {} THEN <<s>>
    ELSE LET i == CHOOSE x \in I : \A y \in I : x <= y IN
         <<SubSeq(s, 1, i - 1)>> \o Split(SubSeq(s, i + 1, Len(s)))

\* The value of the first n characters of a string of digits.
RECURSIVE ParseDigits(_, _)
ParseDigits(s, n) ==
    IF n = 0 THEN 0
    ELSE 10 * ParseDigits(s, n - 1) + IndexIn(Digits, SubSeq(s, n, n)) - 1

\* strconv.ParseInt(s, 10, 64), for the values that fit.
ParseInt(s) ==
    LET signed == Len(s) > 0 /\ SubSeq(s, 1, 1) \in {"+", "-"}
        digits == IF signed THEN SubSeq(s, 2, Len(s)) ELSE s IN
    IF Len(digits) = 0 \/ \E i \in 1..Len(digits) : IndexIn(Digits, SubSeq(digits, i, i)) = 0
    THEN [err |-> "invalid syntax", value |-> 0]
    ELSE [err |-> "",
          value |-> IF signed /\ SubSeq(s, 1, 1) = "-"
                    THEN 0 - ParseDigits(digits, Len(digits))
                    ELSE ParseDigits(digits, Len(digits))]

\* The loop of GetMaxAge over the directives from the n-th on.
RECURSIVE MaxAgeFrom(_, _, _)
MaxAgeFrom(directives, n, defaultAge) ==
    IF n > Len(directives) THEN defaultAge
    ELSE LET directive == TrimSpace(directives[n]) IN
         IF HasPrefix(directive, "max-age=")
            /\ ParseInt(SubSeq(directive, Len("max-age=") + 1, Len(directive))).err = ""
         THEN ParseInt(SubSeq(directive, Len("max-age=") + 1, Len(directive))).value
         ELSE MaxAgeFrom(directives, n + 1, defaultAge)

GetMaxAge(resp, defaultAge) ==
    LET cacheControl == HeaderGet(resp.Header, "Cache-Control") IN
    IF cacheControl = "" THEN defaultAge
    ELSE MaxAgeFrom(Split(cacheControl), 1, defaultAge)

\* r.URL.String()
URLString(u) == (IF u.Scheme = "" THEN "" ELSE u.Scheme \o ":")
                \o (IF u.Host = "" THEN "" ELSE "//" \o u.Host) \o u.Path

\* GenerateKey(r). SHA-256 is taken to be free of collisions: the digest is
\* represented by the string it is computed from.
GenerateKey(r) ==
    LET accept == HeaderGet(r.Header, "Accept")
        encoding == HeaderGet(r.Header, "Accept-Encoding") IN
    [sha256 |-> r.Method \o ":" \o URLString(r.URL)
                \o (IF accept # "" THEN ":" \o accept ELSE "")
                \o (IF encoding # "" THEN ":" \o encoding ELSE "")]

\* CreateCacheEntry(resp, maxAge) at time t.
CreateCacheEntry(resp, maxAge, t) ==
    [StatusCode |-> resp.StatusCode,
     Headers |-> resp.Header,
     Body |-> resp.Body,
     CachedAt |-> t,
     ExpireAt |-> t + GetMaxAge(resp, maxAge),
     Size |-> Len(resp.Body)]

\* Header.Set
HeaderSet(h, name, value) == With(h, CanonicalMIMEHeaderKey(name), <<value>>)

\* A replay of the entry that does not mark the response: not what
\* WriteToResponse does.
WriteToResponseUnmarked(e, t) ==
    [StatusCode |-> e.StatusCode,
     Header |-> copyHeaders(<< >>, e.Headers, DOMAIN e.Headers),
     Body |-> e.Body]

\* e.WriteToResponse(w) at time t, on a ResponseWriter nothing was written to.
WriteToResponse(e, t) ==
    [StatusCode |-> e.StatusCode,
     Header |-> HeaderSet(HeaderSet(copyHeaders(<< >>, e.Headers, DOMAIN e.Headers),
                                    "X-Cache", "HIT"),
                          "X-Cache-Age", ToString(t - e.CachedAt)),
     Body |-> e.Body]

\* The states HTTPCache.Set(key, entry) can leave (ents, cur) in.
SetOutcomes(ents, cur, key, entry) ==
    {[entries |-> With(res.entries, key, entry),
      currentSize |-> (IF key \in DOMAIN res.entries
                       THEN res.currentSize - res.entries[key].Size
                       ELSE res.currentSize) + entry.Size] :
        res \in (IF cur + entry.Size > maxSize
                 THEN evictLRU(ents, cur, entry.Size, << >>)
                 ELSE {[entries |-> ents, currentSize |-> cur, evicted |-> << >>]})}

\* The Cache-Control lines of the responses a TTL is derived from.
TTLValues == {"max-age=60", "public, max-age=0", "public", "max-age=soon", " max-age=7 "}

TTLResponses ==
    {[StatusCode |-> 200, Header |-> ParseHeader(lines, Len(lines)), Body |-> "A"] :
        lines \in SeqUpTo([name : {"Cache-Control"}, value : TTLValues], MaxLines)}

\* The calls of GetMaxAge and CreateCacheEntry the model makes.
TTLCalls ==
    {[fn |-> fn, resp |-> resp, maxAge |-> DefaultMaxAge] :
        fn \in {"GetMaxAge", "CreateCacheEntry"}, resp \in TTLResponses}

\* The pending call of GetMaxAge runs and returns.
CallGetMaxAge ==
    /\ call.fn = "GetMaxAge" /\ ret = NotCalled
    /\ ret' = [fn |-> "GetMaxAge", value |-> GetMaxAge(call.resp, call.maxAge)]
    /\ UNCHANGED call
    /\ PureFrame

\* The pending call of CreateCacheEntry runs at the present time and returns.
CallCreateCacheEntry ==
    /\ call.fn = "CreateCacheEntry" /\ ret = NotCalled
    /\ ret' = [fn |-> "CreateCacheEntry",
               value |-> CreateCacheEntry(call.resp, call.maxAge, now)]
    /\ UNCHANGED call
    /\ PureFrame

NextTTL ==
    \/ CallGetMaxAge
    \/ CallCreateCacheEntry
    \/ Tick

\* A response body is a stream: the chunks still unread, and the error the read
\* after the last chunk ends with, "" for io.EOF.
MaxChunks == 3

BodyStreams ==
    [chunks : SeqUpTo({"", "a", "bc"}, MaxChunks), err : {"", "unexpected EOF"}]

\* The bytes of the chunks one after another.
RECURSIVE Concat(_, _)
Concat(chunks, n) == IF n = 0 THEN "" ELSE Concat(chunks, n - 1) \o chunks[n]

\* io.ReadAll(body): everything up to io.EOF or to the error, and the error.
ReadAll(body) == [data |-> Concat(body.chunks, Len(body.chunks)), err |-> body.err]

\* io.NopCloser(bytes.NewReader(b))
NewReader(b) == [chunks |-> IF b = "" THEN << >> ELSE <<b>>, err |-> ""]

\* What is left of a body after io.ReadAll.
Drained(body) == [chunks |-> << >>, err |-> body.err]

\* A CreateCacheEntry that leaves the response with the body it has read to
\* the end: not what CreateCacheEntry does.
CreateCacheEntryBodySpent(resp, maxAge, t) ==
    LET read == ReadAll(resp.Body) IN
    IF read.err # ""
    THEN [entry |-> NoEntry, err |-> "failed to read response body: " \o read.err,
          resp |-> [resp EXCEPT !.Body = Drained(resp.Body)]]
    ELSE [entry |-> CreateCacheEntry([resp EXCEPT !.Body = read.data], maxAge, t),
          err |-> "",
          resp |-> [resp EXCEPT !.Body = Drained(resp.Body)]]

\* CreateCacheEntry(resp, maxAge) at time t on a response whose body is a
\* stream: the entry or the error, and the response as the call leaves it.
CreateCacheEntryFromBody(resp, maxAge, t) ==
    LET read == ReadAll(resp.Body) IN
    IF read.err # ""
    THEN [entry |-> NoEntry, err |-> "failed to read response body: " \o read.err,
          resp |-> [resp EXCEPT !.Body = Drained(resp.Body)]]
    ELSE [entry |-> CreateCacheEntry([resp EXCEPT !.Body = read.data], maxAge, t),
          err |-> "",
          resp |-> [resp EXCEPT !.Body = NewReader(read.data)]]

\* The calls of CreateCacheEntry on streamed bodies the model makes.
BodyCalls ==
    {[fn |-> "CreateCacheEntry",
      resp |-> [StatusCode |-> 200,
                Header |-> IF cc = "" THEN << >> ELSE ("Cache-Control" :> <<cc>>),
                Body |-> body],
      maxAge |-> DefaultMaxAge] :
        cc \in {"", "max-age=60"}, body \in BodyStreams}

\* The pending call of CreateCacheEntry runs at the present time and returns.
CallCreateCacheEntryFromBody ==
    /\ call.fn = "CreateCacheEntry" /\ ret = NotCalled
    /\ LET out == CreateCacheEntryFromBody(call.resp, call.maxAge, now) IN
       ret' = [fn |-> "CreateCacheEntry", entry |-> out.entry, err |-> out.err,
               resp |-> out.resp, streamed |-> FALSE, client |-> ""]
    /\ UNCHANGED call
    /\ PureFrame

\* The caller streams the body the response now carries to the client.
StreamBody ==
    /\ ret.fn = "CreateCacheEntry" /\ ret.err = "" /\ ~ret.streamed
    /\ ret' = [ret EXCEPT !.streamed = TRUE,
                          !.client = ReadAll(ret.resp.Body).data,
                          !.resp.Body = Drained(ret.resp.Body)]
    /\ UNCHANGED call
    /\ PureFrame

NextBody ==
    \/ CallCreateCacheEntryFromBody
    \/ StreamBody
    \/ Tick

\* The requests a key is generated for: with or without an Accept, an
\* Accept-Encoding and a User-Agent line.
KeyRequests ==
    {[Method |-> m, URL |-> [Scheme |-> "http", Host |-> "origin.test", Path |-> path],
      Host |-> "origin.test",
      Header |-> [name \in names |-> <<IF name = "User-Agent" THEN "curl" ELSE "gzip">>]] :
        m \in {"GET", "POST"}, path \in {"/", "/a"},
        names \in SUBSET {"Accept", "Accept-Encoding", "User-Agent"}}

\* The pairs of requests whose keys the model compares.
KeyCalls == {[fn |-> "GenerateKey", r1 |-> r1, r2 |-> r2] : r1, r2 \in KeyRequests}

\* GenerateKey runs on each request of the pending pair.
CallGenerateKey ==
    /\ call.fn = "GenerateKey" /\ ret = NotCalled
    /\ ret' = [fn |-> "GenerateKey", k1 |-> GenerateKey(call.r1), k2 |-> GenerateKey(call.r2)]
    /\ UNCHANGED call
    /\ PureFrame

NextKey ==
    \/ CallGenerateKey

\* The requests clients send through the proxy to an origin.
CachedRequests ==
    {[Method |-> m, URL |-> [Scheme |-> "http", Host |-> "origin.test", Path |-> path],
      Host |-> "origin.test", Header |-> << >>] :
        m \in {"GET", "POST"}, path \in {"/"}}

\* What the origin answers at the moment it is asked.
OriginAnswers ==
    {[err |-> "connection refused"],
     [err |-> "", StatusCode |-> 200,
      Header |-> ("Content-Type" :> <<"text/plain">>), Body |-> "A"],
     [err |-> "", StatusCode |-> 200,
      Header |-> ("Cache-Control" :> <<"max-age=0">>), Body |-> "B"]}

\* The plain-HTTP handler with the cache: the lookup, and on a miss the
\* forwarding, the insertion of a cacheable response and the answer marked
\* X-Cache: MISS. The origin answers with net.
CachedHandleHTTP(r, net) ==
    /\ Len(served) < MaxServed
    /\ NoReaders
    /\ LET key == GenerateKey(r)
           found == Found(entries, key, now) IN
       IF found
       THEN /\ hitCount' = hitCount + 1
            /\ w' = WriteToResponse(entries[key], now)
            /\ served' = Append(served, [req |-> r, at |-> now, forwarded |-> FALSE,
                                         resp |-> NoResult, w |-> w'])
            /\ UNCHANGED <<entries, currentSize, missCount, outReq, upstreamResp>>
       ELSE LET req == [r EXCEPT !.Header = removeHopHeaders(r.Header)]
                res == RoundTrip(req, net) IN
            /\ missCount' = missCount + 1
            /\ outReq' = req
            /\ upstreamResp' = res
            /\ IF res.err = "" /\ IsCacheable(r, res)
               THEN \E out \in SetOutcomes(entries, currentSize, key,
                                           CreateCacheEntry(res, DefaultMaxAge, now)) :
                        /\ entries' = out.entries
                        /\ currentSize' = out.currentSize
               ELSE UNCHANGED <<entries, currentSize>>
            /\ w' = IF res.err # ""
                    THEN httpError(res.err, 502)
                    ELSE [StatusCode |-> res.StatusCode,
                          Header |-> HeaderSet(copyHeaders(<< >>, res.Header, DOMAIN res.Header),
                                               "X-Cache", "MISS"),
                          Body |-> res.Body]
            /\ served' = Append(served, [req |-> r, at |-> now, forwarded |-> TRUE,
                                         resp |-> res, w |-> w'])
            /\ UNCHANGED hitCount
    /\ clientReq' = r
    /\ handler' = "cached"
    /\ last' = [op |-> "handleHTTP", key |-> GenerateKey(r)]
    /\ UNCHANGED <<now, readers, observed, certVars, pureVars, connectVars, forwardVars, poolVars, tierVars>>

\* Requests served one after another, with the clock running.
NextCached ==
    \/ \E r \in CachedRequests, net \in OriginAnswers : CachedHandleHTTP(r, net)
    \/ Tick

-----------------------------------------------------------------------------
(* internal/cache: the loop of evictLRU, one iteration at a time *)

\* The maps evictLRU is called on, with the currentSize that goes with each.
EvictEntries == {e \in CacheEntry : e.ExpireAt = 1}

EvictMaps == UNION {[S -> EvictEntries] : S \in SUBSET Keys}

\* The room evictLRU is asked for: nothing, the size of an entry, or more than
\* all entries of a map together hold.
EvictNeeded == {0} \cup Sizes \cup {Cardinality(Keys) * (maxSize + 1) + 1}

EvictCalls ==
    {[fn |-> "evictLRU", entries |-> ents,
      currentSize |-> SumSizes(ents, DOMAIN ents), needed |-> needed] :
        ents \in EvictMaps, needed \in EvictNeeded}

\* evictLRU(needed) is entered.
EvictEnter ==
    /\ call.fn = "evictLRU" /\ ret = NotCalled
    /\ ret' = [fn |-> "evictLRU", pc |-> "loop", entries |-> call.entries,
               currentSize |-> call.currentSize, needed |-> call.needed,
               evicted |-> << >>]
    /\ UNCHANGED call
    /\ PureFrame

\* An iteration of the outer loop that comes upon no entry to delete: not what
\* an iteration of evictLRU does.
EvictIterationFindsNone ==
    /\ ret.fn = "evictLRU" /\ ret.pc = "loop"
    /\ ret.needed > 0 /\ DOMAIN ret.entries # {}
    /\ UNCHANGED <<call, ret>>
    /\ PureFrame

\* One iteration of `for needed > 0 && len(c.entries) > 0`: the inner loop
\* settles on an entry no other is Before, and that entry is deleted.
EvictIteration ==
    /\ ret.fn = "evictLRU" /\ ret.pc = "loop"
    /\ ret.needed > 0 /\ DOMAIN ret.entries # {}
    /\ \E k \in Oldest(ret.entries) :
          ret' = [ret EXCEPT !.entries = Without(@, k),
                             !.currentSize = @ - ret.entries[k].Size,
                             !.needed = @ - ret.entries[k].Size,
                             !.evicted = Append(@, k)]
    /\ UNCHANGED call
    /\ PureFrame

\* The loop condition fails and evictLRU returns.
EvictReturn ==
    /\ ret.fn = "evictLRU" /\ ret.pc = "loop"
    /\ ~(ret.needed > 0 /\ DOMAIN ret.entries # {})
    /\ ret' = [ret EXCEPT !.pc = "done"]
    /\ UNCHANGED call
    /\ PureFrame

NextEvict ==
    \/ EvictEnter
    \/ EvictIteration
    \/ EvictReturn

-----------------------------------------------------------------------------
(* internal/cache: TieredCache, the HTTPCache as L1 and Redis as L2 *)

\* The entries the tiers are filled with.
TierEntries == {e \in CacheEntry : e.CachedAt = 0 /\ e.Size >= 2}

\* Redis holds key: it was set with ttl = time.Until(entry.ExpireAt) and the
\* ttl has not run out.
L2Live(key) == key \in DOMAIN tier.l2 /\ now < tier.l2[key].ExpireAt

\* What RedisBackend.Get(key) can return: the entry Redis holds, unmarshalled,
\* or (nil, nil) when Redis holds none, or an error of the client.
L2Get(key) ==
    {[entry |-> IF L2Live(key) THEN tier.l2[key] ELSE NoEntry, err |-> ""],
     [entry |-> NoEntry, err |-> "redis get failed"]}

\* A Get that returns the L2 entry without storing it in L1: not what
\* TieredCache.Get does.
TieredGetNoPromote(key) ==
    /\ NoReaders
    /\ IF Found(entries, key, now)
       THEN /\ hitCount' = hitCount + 1
            /\ tier' = [tier EXCEPT !.hitCount = @ + 1, !.l1Hits = @ + 1]
            /\ last' = [op |-> "TieredGet", key |-> key, found |-> TRUE,
                        entry |-> entries[key], l2 |-> "not queried"]
            /\ UNCHANGED <<entries, currentSize, missCount>>
       ELSE /\ missCount' = missCount + 1
            /\ UNCHANGED <<entries, currentSize, hitCount>>
            /\ IF tier.hasL2
               THEN \E out \in L2Get(key) :
                      IF out.err = "" /\ out.entry # NoEntry
                      THEN /\ tier' = [tier EXCEPT !.hitCount = @ + 1, !.l2Hits = @ + 1]
                           /\ last' = [op |-> "TieredGet", key |-> key, found |-> TRUE,
                                       entry |-> out.entry, l2 |-> "hit"]
                      ELSE /\ tier' = [tier EXCEPT !.missCount = @ + 1]
                           /\ last' = [op |-> "TieredGet", key |-> key, found |-> FALSE,
                                       entry |-> NoEntry,
                                       l2 |-> IF out.err = "" THEN "miss" ELSE "error"]
               ELSE /\ tier' = [tier EXCEPT !.missCount = @ + 1]
                    /\ last' = [op |-> "TieredGet", key |-> key, found |-> FALSE,
                                entry |-> NoEntry, l2 |-> "not queried"]
    /\ UNCHANGED <<now, readers, observed>>
    /\ TierFrame

\* TieredCache.Get(key): l1.Get, which counts in the HTTPCache too; after a miss
\* there l2.Get, whose entry is set in L1 and returned; else the miss.
TieredGet(key) ==
    /\ NoReaders
    /\ IF Found(entries, key, now)
       THEN /\ hitCount' = hitCount + 1
            /\ tier' = [tier EXCEPT !.hitCount = @ + 1, !.l1Hits = @ + 1]
            /\ last' = [op |-> "TieredGet", key |-> key, found |-> TRUE,
                        entry |-> entries[key], l2 |-> "not queried"]
            /\ UNCHANGED <<entries, currentSize, missCount>>
       ELSE /\ missCount' = missCount + 1
            /\ UNCHANGED hitCount
            /\ IF tier.hasL2
               THEN \E out \in L2Get(key) :
                      IF out.err = "" /\ out.entry # NoEntry
                      THEN /\ \E res \in SetOutcomes(entries, currentSize, key, out.entry) :
                                /\ entries' = res.entries
                                /\ currentSize' = res.currentSize
                           /\ tier' = [tier EXCEPT !.hitCount = @ + 1, !.l2Hits = @ + 1]
                           /\ last' = [op |-> "TieredGet", key |-> key, found |-> TRUE,
                                       entry |-> out.entry, l2 |-> "hit"]
                      ELSE /\ tier' = [tier EXCEPT !.missCount = @ + 1]
                           /\ last' = [op |-> "TieredGet", key |-> key, found |-> FALSE,
                                       entry |-> NoEntry,
                                       l2 |-> IF out.err = "" THEN "miss" ELSE "error"]
                           /\ UNCHANGED <<entries, currentSize>>
               ELSE /\ tier' = [tier EXCEPT !.missCount = @ + 1]
                    /\ last' = [op |-> "TieredGet", key |-> key, found |-> FALSE,
                                entry |-> NoEntry, l2 |-> "not queried"]
                    /\ UNCHANGED <<entries, currentSize>>
    /\ UNCHANGED <<now, readers, observed>>
    /\ TierFrame

\* TieredCache.Set(key, entry): l1.Set, then l2.Set with the time left until
\* ExpireAt when that is positive; stored tells whether Redis took the entry.
TieredSet(key, entry, stored) ==
    /\ NoReaders
    /\ \E res \in SetOutcomes(entries, currentSize, key, entry) :
          /\ entries' = res.entries
          /\ currentSize' = res.currentSize
    /\ tier' = IF tier.hasL2 /\ entry.ExpireAt > now /\ stored
               THEN [tier EXCEPT !.l2 = With(@, key, entry)]
               ELSE tier
    /\ last' = [op |-> "TieredSet", key |-> key, entry |-> entry]
    /\ UNCHANGED <<hitCount, missCount, now, readers, observed>>
    /\ TierFrame

\* Another instance of the proxy stores an entry in the Redis the tiers share.
RemoteSet(key, entry) ==
    /\ tier.hasL2 /\ entry.ExpireAt > now
    /\ tier' = [tier EXCEPT !.l2 = With(@, key, entry)]
    /\ last' = [op |-> "RemoteSet", key |-> key, entry |-> entry]
    /\ UNCHANGED <<now, cacheVars>>
    /\ TierFrame

\* The Gets of the TieredCache that are under way.
Getting == {g \in Goroutines : getters[g].pc # "idle"}

\* c.l1.Get(key), the first statement of TieredCache.Get in goroutine g.
TierGetL1(g, key) ==
    /\ NoReaders
    /\ getters[g].pc = "idle"
    /\ IF Found(entries, key, now)
       THEN /\ hitCount' = hitCount + 1
            /\ getters' = [getters EXCEPT ![g].pc = "countL1", ![g].key = key,
                                          ![g].entry = entries[key]]
            /\ UNCHANGED missCount
       ELSE /\ missCount' = missCount + 1
            /\ getters' = [getters EXCEPT
                             ![g].pc = IF tier.hasL2 THEN "l2" ELSE "countMiss",
                             ![g].key = key, ![g].entry = NoEntry]
            /\ UNCHANGED hitCount
    /\ last' = [op |-> "l1.Get"]
    /\ UNCHANGED <<entries, currentSize, now, readers, observed, tier>>
    /\ GetterFrame

\* c.l2.Get(key) in goroutine g, after the miss in L1.
TierGetL2(g) ==
    /\ getters[g].pc = "l2"
    /\ \E out \in L2Get(getters[g].key) :
          getters' = IF out.err = "" /\ out.entry # NoEntry
                     THEN [getters EXCEPT ![g].pc = "promote", ![g].entry = out.entry]
                     ELSE [getters EXCEPT ![g].pc = "countMiss"]
    /\ last' = [op |-> "l2.Get"]
    /\ UNCHANGED <<now, cacheVars, tier>>
    /\ GetterFrame

\* c.l1.Set(key, entry) in goroutine g: the entry of L2 is promoted.
TierPromote(g) ==
    /\ NoReaders
    /\ getters[g].pc = "promote"
    /\ \E res \in SetOutcomes(entries, currentSize, getters[g].key, getters[g].entry) :
          /\ entries' = res.entries
          /\ currentSize' = res.currentSize
    /\ getters' = [getters EXCEPT ![g].pc = "countL2"]
    /\ last' = [op |-> "l1.Set"]
    /\ UNCHANGED <<hitCount, missCount, now, readers, observed, tier>>
    /\ GetterFrame

\* A Get that counts its hit in L2 as a hit without adding it to l2Hits: not
\* what TieredCache.Get does.
TierCountNoL2Hits(g) ==
    /\ getters[g].pc \in {"countL1", "countL2", "countMiss"}
    /\ tier' = IF getters[g].pc = "countL1"
               THEN [tier EXCEPT !.hitCount = @ + 1, !.l1Hits = @ + 1]
               ELSE IF getters[g].pc = "countL2"
               THEN [tier EXCEPT !.hitCount = @ + 1]
               ELSE [tier EXCEPT !.missCount = @ + 1]
    /\ getters' = [getters EXCEPT ![g].pc = "idle", ![g].done = @ + 1]
    /\ last' = [op |-> "TieredGet", key |-> getters[g].key,
                found |-> getters[g].pc # "countMiss", entry |-> getters[g].entry,
                g |-> g]
    /\ UNCHANGED <<now, cacheVars>>
    /\ GetterFrame

\* The section of TieredCache.Get between c.mu.Lock() and c.mu.Unlock() in
\* goroutine g, and its return: the mutex keeps every other reader and writer
\* of the four counters out until both increments are done.
TierCount(g) ==
    /\ getters[g].pc \in {"countL1", "countL2", "countMiss"}
    /\ tier' = IF getters[g].pc = "countL1"
               THEN [tier EXCEPT !.hitCount = @ + 1, !.l1Hits = @ + 1]
               ELSE IF getters[g].pc = "countL2"
               THEN [tier EXCEPT !.hitCount = @ + 1, !.l2Hits = @ + 1]
               ELSE [tier EXCEPT !.missCount = @ + 1]
    /\ getters' = [getters EXCEPT ![g].pc = "idle", ![g].done = @ + 1]
    /\ last' = [op |-> "TieredGet", key |-> getters[g].key,
                found |-> getters[g].pc # "countMiss", entry |-> getters[g].entry,
                g |-> g]
    /\ UNCHANGED <<now, cacheVars>>
    /\ GetterFrame

\* TieredCache.Stats(): the four counters, read under c.mu.RLock().
TieredStats ==
    /\ observed' = [fn |-> "TieredCache.Stats", hits |-> tier.hitCount,
                    misses |-> tier.missCount, l1Hits |-> tier.l1Hits,
                    l2Hits |-> tier.l2Hits]
    /\ UNCHANGED <<entries, currentSize, hitCount, missCount, now, last, readers>>
    /\ UNCHANGED tierVars
    /\ GetterFrame

\* The entries the tiers are filled with while Gets are under way.
GetterEntries == {e \in TierEntries : e.ExpireAt = 1 /\ e.Size = 2}

\* Gets of the TieredCache in two goroutines, interleaved statement by
\* statement with each other and with Set (Redis takes the entry), the stores
\* of other instances and Stats.
NextGetters ==
    \/ \E g \in Goroutines, key \in TwoKeys :
          /\ tier.hitCount + tier.missCount + Cardinality(Getting) < MaxSeqGets
          /\ TierGetL1(g, key)
    \/ \E g \in Goroutines : TierGetL2(g)
    \/ \E g \in Goroutines : TierPromote(g)
    \/ \E g \in Goroutines : TierCount(g)
    \/ TieredStats
    \/ \E key \in TwoKeys, entry \in GetterEntries : TieredSet(key, entry, TRUE)
    \/ \E key \in TwoKeys, entry \in GetterEntries : RemoteSet(key, entry)

NextTiered ==
    \/ \E key \in TwoKeys : hitCount + missCount < MaxSeqGets /\ TieredGet(key)
    \/ \E key \in TwoKeys, entry \in TierEntries, stored \in BOOLEAN :
          TieredSet(key, entry, stored)
    \/ \E key \in TwoKeys, entry \in TierEntries : RemoteSet(key, entry)
    \/ Tick

-----------------------------------------------------------------------------
(* Specifications *)

Init == InitCache /\ InitCert /\ InitPure /\ InitProxy /\ InitConnect

Spec == Init /\ [][Next]_vars

\* Concurrent Gets beside Stats readers, on a cache that one entry is set in.
StatsKey == "k1"
StatsEntry == [Size |-> 1, CachedAt |-> 0, ExpireAt |-> 1]

\* HitRate is between its RLock and its return.
HitRateRunning == call.fn = "HitRate" /\ ret.fn # "HitRate"

\* HitRate: RLock and the load of hitCount for the sum. RLock admits the
\* readers that are inside Get, whose counter stores are not ordered with
\* HitRate's loads.
HitRateLoadHits ==
    /\ call = NotCalled
    /\ call' = [fn |-> "HitRate", pc |-> "hits", hits |-> hitCount]
    /\ UNCHANGED ret
    /\ PureFrame

\* The load of missCount: total := c.hitCount + c.missCount. A total of 0
\* returns 0.0.
HitRateLoadMisses ==
    /\ call.fn = "HitRate" /\ call.pc = "hits"
    /\ LET total == call.hits + missCount IN
       IF total = 0
       THEN /\ ret' = [fn |-> "HitRate", num |-> 0, den |-> 1]
            /\ call' = [call EXCEPT !.pc = "done"]
       ELSE /\ call' = [fn |-> "HitRate", pc |-> "total", hits |-> call.hits, total |-> total]
            /\ UNCHANGED ret
    /\ PureFrame

\* float64(c.hitCount) / float64(total): hitCount is read again, or the value
\* loaded for the sum is kept; the quotient is the pair (num, den).
HitRateDivide ==
    /\ call.fn = "HitRate" /\ call.pc = "total"
    /\ \E h \in {hitCount, call.hits} :
          ret' = [fn |-> "HitRate", num |-> h, den |-> call.total]
    /\ call' = [call EXCEPT !.pc = "done"]
    /\ PureFrame

\* Concurrent Gets beside one call of HitRate.
NextRate ==
    \/ \E g \in Goroutines, key \in TwoKeys : GetEnter(g, key)
    \/ \E g \in Goroutines : GetExit(g)
    \/ ~HitRateRunning /\ Set(StatsKey, StatsEntry)
    \/ HitRateLoadHits
    \/ HitRateLoadMisses
    \/ HitRateDivide

SpecRate == Init /\ [][NextRate]_vars

NextStats ==
    \/ \E g \in Goroutines, key \in Keys : GetEnter(g, key)
    \/ \E g \in Goroutines : GetExit(g)
    \/ Stats
    \/ Set(StatsKey, StatsEntry)

SpecStats == Init /\ [][NextStats]_vars

SpecTwoKeys == Init /\ [][NextTwoKeys]_vars

SpecCert == Init /\ [][NextCert]_vars

\* One call of a function of package cache, on arguments drawn at the start.
InitCalls ==
    /\ InitCache /\ InitCert /\ InitProxy /\ InitConnect
    /\ call \in IsCacheableCalls
    /\ ret = NotCalled

SpecPure == InitCalls /\ [][NextPure]_vars

\* One call of GetMaxAge or CreateCacheEntry, on a response drawn at the start.
InitTTLCalls ==
    /\ InitCache /\ InitCert /\ InitProxy /\ InitConnect
    /\ call \in TTLCalls
    /\ ret = NotCalled

SpecTTL == InitTTLCalls /\ [][NextTTL]_vars

\* One call of CreateCacheEntry, on a response with a streamed body drawn at
\* the start, and the streaming of the body afterwards.
InitBodyCalls ==
    /\ InitCache /\ InitCert /\ InitProxy /\ InitConnect
    /\ call \in BodyCalls
    /\ ret = NotCalled

SpecBody == InitBodyCalls /\ [][NextBody]_vars

\* One call of evictLRU, on a map drawn at the start; the goroutine that runs
\* the loop holds the cache's lock and is not held up.
InitEvictCalls ==
    /\ InitCache /\ InitCert /\ InitProxy /\ InitConnect
    /\ call \in EvictCalls
    /\ ret = NotCalled

SpecEvict == InitEvictCalls /\ [][NextEvict]_vars /\ WF_vars(NextEvict)

\* One pair of requests, drawn at the start, and their keys.
InitKeyCalls ==
    /\ InitCache /\ InitCert /\ InitProxy /\ InitConnect
    /\ call \in KeyCalls
    /\ ret = NotCalled

SpecKey == InitKeyCalls /\ [][NextKey]_vars

\* One client request, drawn at the start, served by either variant of the
\* plain-HTTP handler.
InitRequest ==
    /\ InitCache /\ InitCert /\ InitPure /\ InitConnect
    /\ handler = "none"
    /\ clientReq \in ClientRequests
    /\ outReq = NoRequest
    /\ w = NoResponse
    /\ upstreamResp = NoResult
    /\ served = << >>
    /\ flight = NoFlight
    /\ InitPool
    /\ InitTier

\* A TieredCache with or without Redis behind it, used by one goroutine.
InitTiered ==
    /\ InitCache /\ InitCert /\ InitPure /\ InitConnect
    /\ handler = "none"
    /\ clientReq = NoRequest
    /\ outReq = NoRequest
    /\ w = NoResponse
    /\ upstreamResp = NoResult
    /\ served = << >>
    /\ flight = NoFlight
    /\ InitPool
    /\ tier \in {NewTieredCache(hasL2) : hasL2 \in BOOLEAN}
    /\ getters = NoGetters

SpecTiered == InitTiered /\ [][NextTiered]_vars

SpecGetters == InitTiered /\ [][NextGetters]_vars

\* Two goroutines that take buffers from the pools and put them back.
SpecPool == Init /\ [][NextPool]_vars

SpecProxy == InitRequest /\ [][NextProxy]_vars

\* One client request forwarded step by step. The origin owes no answer; a
\* transport that waits on a context whose Done channel is closed returns.
SpecForward == InitRequest /\ [][NextForward]_vars /\ WF_vars(TransportCancel)

\* One CONNECT request, drawn at the start, served by either variant of the
\* CONNECT handler.
InitConnectRequest ==
    /\ InitCache /\ InitCert /\ InitPure /\ InitProxy
    /\ conn \in {Received(variant, target) : variant \in Variants, target \in Targets}

SpecConnect == InitConnectRequest /\ [][NextConnect]_vars

\* One request at the listener, drawn at the start.
InitRoute ==
    /\ InitCache /\ InitCert /\ InitPure /\ InitConnect
    /\ handler = "none"
    /\ clientReq \in RouteRequests
    /\ outReq = NoRequest
    /\ w = NoResponse
    /\ upstreamResp = NoResult
    /\ served = << >>
    /\ flight = NoFlight
    /\ InitPool
    /\ InitTier

SpecRoute == InitRoute /\ [][NextRoute]_vars

SpecCached == Init /\ [][NextCached]_vars

-----------------------------------------------------------------------------
(* Properties of the response cache *)

Range(seq) == {seq[i] : i \in 1..Len(seq)}

\* The bytes evictLRU has freed after the first n evictions of the sequence ev.
RECURSIVE Freed(_, _, _)
Freed(ents, ev, n) == IF n = 0 THEN 0 ELSE ents[ev[n]].Size + Freed(ents, ev, n - 1)

\* C1: in every reachable state of the cache, currentSize <= maxSize.
C1_SizeWithinMax == currentSize <= maxSize

\* C4: Get(key) returns an entry exactly when the key is present and
\* now <= entry.ExpireAt; an expired entry still in the map is a miss.
C4_GetServesOnlyUnexpired ==
    [][last'.op = "Get" =>
          (last'.found <=> (/\ last'.key \in DOMAIN entries
                            /\ now <= entries[last'.key].ExpireAt))]_vars

\* A Get missed on a key whose expired entry is still in the map.
C4_Witness ==
    /\ last.op = "Get" /\ ~last.found
    /\ last.key \in DOMAIN entries
    /\ now > entries[last.key].ExpireAt

\* The step is a call of Set (every step of Next records itself in last);
\* SetKey and SetEntry are its arguments.
IsSet == last'.op = "Set"
SetKey == last'.key
SetEntry == entries'[last'.key]

\* The eviction order of a Set that found currentSize + e.Size > maxSize: the
\* evicted entries leave in ascending CachedAt order, none is newer than an
\* entry that evictLRU left in the map, and the map then holds e under key.
EvictionOrder(key, entry) ==
    LET ev == last'.evicted
        survivors == DOMAIN entries \ Range(ev) IN
    /\ \A i, j \in 1..Len(ev) :
          i < j => entries[ev[i]].CachedAt <= entries[ev[j]].CachedAt
    /\ \A i \in 1..Len(ev) : \A k \in survivors :
          entries[ev[i]].CachedAt <= entries[k].CachedAt
    /\ key \in DOMAIN entries' /\ entries'[key] = entry

\* C7 as stated: after such a Set, Get retrieves the new entry.
C7_EvictsOldestNewRetrievable ==
    [][(IsSet /\ currentSize + SetEntry.Size > maxSize)
          => (EvictionOrder(SetKey, SetEntry) /\ Found(entries', SetKey, now'))]_vars

\* C7, amended: after such a Set the new entry is in the map, and Get retrieves
\* it unless it has already expired.
C7_EvictsOldestNewPresent ==
    [][(IsSet /\ currentSize + SetEntry.Size > maxSize)
          => /\ EvictionOrder(SetKey, SetEntry)
             /\ (Found(entries', SetKey, now') <=> now' <= SetEntry.ExpireAt)]_vars

\* A Set evicted an entry and left another, and Get retrieves the new entry.
C7_Witness ==
    /\ last.op = "Set" /\ Len(last.evicted) >= 1
    /\ Cardinality(DOMAIN entries) >= 2
    /\ Found(entries, last.key, now)

\* C8: Set evicts nothing when currentSize + e.Size <= maxSize holds on entry,
\* and evicts no further entry once that holds.
C8_EvictionStopsWhenRoom ==
    [][IsSet =>
          \A n \in 0..(Len(last'.evicted) - 1) :
              currentSize - Freed(entries, last'.evicted, n) + SetEntry.Size > maxSize]_vars

\* C9: one pass of the sweep at time now removes exactly the entries with
\* ExpireAt < now, subtracts exactly their sizes, and Get misses on them.
C9_SweepRemovesExactlyExpired ==
    [][last'.op = "cleanupExpired" =>
          LET removed == {k \in DOMAIN entries : entries[k].ExpireAt < now} IN
          /\ DOMAIN entries' = DOMAIN entries \ removed
          /\ \A k \in DOMAIN entries' : entries'[k] = entries[k]
          /\ currentSize' = currentSize - SumSizes(entries, removed)
          /\ \A k \in removed : ~Found(entries', k, now')]_vars

\* A sweep removed an entry and kept another.
C9_Witness ==
    /\ last.op = "cleanupExpired"
    /\ last.removed # {}
    /\ DOMAIN entries # {}

\* C32: in every state Set, Delete, Clear and the sweep can reach, currentSize
\* is the sum of Size over the entries in the map, and is not negative.
C32_SizeIsSumOfEntries ==
    /\ currentSize = SumSizes(entries, DOMAIN entries)
    /\ currentSize >= 0

\* A Set whose eviction removed the entry under the key being set, beside an
\* entry that stayed.
C32_Witness ==
    /\ last.op = "Set"
    /\ last.key \in Range(last.evicted)
    /\ Cardinality(DOMAIN entries) = 2

\* C33: a Get changes neither the map, nor an entry's CachedAt or ExpireAt, nor
\* currentSize; an expired entry it finds stays in the map and in currentSize.
C33_GetLeavesStoreAlone ==
    [][last'.op = "Get" =>
          /\ DOMAIN entries' = DOMAIN entries
          /\ \A k \in DOMAIN entries : entries'[k] = entries[k]
          /\ currentSize' = currentSize]_vars

\* A Get has missed on an expired entry, which is still in the map with its
\* size counted, beside a live one.
C33_Witness ==
    /\ last.op = "Get" /\ ~last.found
    /\ last.key \in DOMAIN entries /\ Expired(entries[last.key], now)
    /\ \E k \in DOMAIN entries : ~Expired(entries[k], now)
    /\ currentSize = SumSizes(entries, DOMAIN entries)

\* C34: Delete of an absent key changes nothing; Delete of a present key
\* removes that entry only and subtracts its size only; Clear leaves no entry
\* and currentSize 0; neither writes the hit or miss counter, and a Get on a
\* deleted or cleared key finds nothing.
C34_DeleteAndClear ==
    [][/\ last'.op = "Delete" =>
             LET key == last'.key IN
             /\ key \notin DOMAIN entries =>
                   entries' = entries /\ currentSize' = currentSize
             /\ key \in DOMAIN entries =>
                   /\ DOMAIN entries' = DOMAIN entries \ {key}
                   /\ \A k \in DOMAIN entries' : entries'[k] = entries[k]
                   /\ currentSize' = currentSize - entries[key].Size
             /\ ~Found(entries', key, now')
             /\ hitCount' = hitCount /\ missCount' = missCount
       /\ last'.op = "Clear" =>
             /\ entries' = << >> /\ currentSize' = 0
             /\ \A key \in Keys : ~Found(entries', key, now')
             /\ hitCount' = hitCount /\ missCount' = missCount]_vars

\* After a Delete its key is gone, another entry is still counted, and the hit
\* an earlier Get counted is still there.
C34_Witness ==
    /\ last.op = "Delete" /\ last.key \notin DOMAIN entries
    /\ DOMAIN entries # {} /\ currentSize > 0
    /\ hitCount >= 1

\* evictLRU has returned.
EvictDone == ret.fn = "evictLRU" /\ ret.pc = "done"

\* C35: evictLRU returns; each iteration removes one entry; it removes no more
\* entries than the map held; and asked for more room than all entries hold, it
\* leaves the map empty and currentSize 0.
C35_EvictTerminates ==
    /\ <>EvictDone
    /\ [][(ret.fn = "evictLRU" /\ ret'.evicted # ret.evicted) =>
             /\ Len(ret'.evicted) = Len(ret.evicted) + 1
             /\ Cardinality(DOMAIN ret'.entries) = Cardinality(DOMAIN ret.entries) - 1]_vars
    /\ [](EvictDone =>
             /\ Len(ret.evicted) <= Cardinality(DOMAIN call.entries)
             /\ [entries |-> ret.entries, currentSize |-> ret.currentSize,
                 evicted |-> ret.evicted]
                   \in evictLRU(call.entries, call.currentSize, call.needed, << >>)
             /\ call.needed > SumSizes(call.entries, DOMAIN call.entries) =>
                   ret.entries = << >> /\ ret.currentSize = 0)

\* evictLRU has emptied a map of three entries that held less than was asked.
C35_Witness ==
    /\ EvictDone
    /\ Len(ret.evicted) = 3
    /\ call.needed > call.currentSize
    /\ ret.entries = << >> /\ ret.currentSize = 0

\* The step touches the entry under key k: a Set of k, an eviction of k, a
\* Delete of k, a Clear, or a sweep that removes k.
Touches(k) ==
    \/ last'.op = "Set" /\ (last'.key = k \/ k \in Range(last'.evicted))
    \/ last'.op = "Delete" /\ last'.key = k
    \/ last'.op = "Clear"
    \/ last'.op = "cleanupExpired" /\ k \in last'.removed

\* C21: when Set(key, e) returns the map holds e under key; a step that does
\* not touch key leaves that entry in place; and a Get of a key whose entry
\* has not expired returns the entry the map holds. So a Get(key) after
\* Set(key, e) returns e unless e expired or key was touched in between.
C21_GetReturnsWhatSetStored ==
    [][/\ last'.op = "Set" =>
             last'.key \in DOMAIN entries' /\ entries'[last'.key] = last'.entry
       /\ \A k \in DOMAIN entries :
             ~Touches(k) => k \in DOMAIN entries' /\ entries'[k] = entries[k]
       /\ (/\ last'.op = "Get"
           /\ last'.key \in DOMAIN entries
           /\ ~Expired(entries[last'.key], now))
             => last'.found /\ last'.entry = entries[last'.key]]_vars

\* A Get returned the entry of its key while the map held another entry too.
C21_Witness ==
    /\ last.op = "Get" /\ last.found
    /\ last.entry = entries[last.key]
    /\ \E k \in DOMAIN entries : k # last.key /\ entries[k] # last.entry

\* C24: when the Gets run one after another, every Get adds one to exactly one
\* counter, to hitCount when it returns an entry and to missCount when the key
\* is absent or expired, and no other operation changes a counter; so after n
\* Gets hitCount + missCount = n and hitCount is the number of Gets that found
\* an entry.
C24_EachGetCountsOnce ==
    [][IF last'.op = "Get"
       THEN /\ (last'.entry # NoEntry) <=> Found(entries, last'.key, now)
            /\ IF last'.entry # NoEntry
               THEN hitCount' = hitCount + 1 /\ missCount' = missCount
               ELSE missCount' = missCount + 1 /\ hitCount' = hitCount
       ELSE hitCount' = hitCount /\ missCount' = missCount]_vars

\* A Get that hit and a Get that missed on an expired entry have run.
C24_Witness ==
    /\ hitCount = 1 /\ missCount = 1
    /\ last.op = "Get" /\ ~last.found
    /\ last.key \in DOMAIN entries

\* C25: what HitRate returns lies in [0, 1]; it is 0.0 when no Get has been
\* made, and hits / (hits + misses) when hits + misses > 0, for the counters
\* as they stand throughout the call.
C25_HitRateIsTheRatio ==
    [][(ret'.fn = "HitRate" /\ ret.fn # "HitRate") =>
          /\ 0 <= ret'.num /\ ret'.num <= ret'.den
          /\ hitCount + missCount = 0 => ret'.num = 0
          /\ (/\ call.pc = "total"
              /\ hitCount = call.hits
              /\ hitCount + missCount = call.total)
                => ret'.num * (hitCount + missCount) = hitCount * ret'.den]_vars

\* C10: the hit and miss counts that successive Stats calls return never
\* decrease.
C10_StatsMonotonic ==
    [][observed'.hits >= observed.hits /\ observed'.misses >= observed.misses]_vars

-----------------------------------------------------------------------------
(* Properties of the certificate manager *)

\* The certificates signed for hostname.
SignedFor(hostname) == {i \in 1..Len(minted) : minted[i].CommonName = hostname}

\* The certificates the finished calls for hostname returned.
ReturnedFor(hostname) ==
    {results[i].cert : i \in {j \in 1..Len(results) :
        results[j].hostname = hostname /\ results[j].cert # NoCert}}

AllReturned == \A g \in Goroutines : callers[g] = Idle

\* C2: over any interleaving of GetCertificate(H) calls, exactly one leaf is
\* generated and signed for H: never a second one, and one once a call for H
\* has returned a certificate.
C2_OneSigningPerHost ==
    \A hostname \in Hosts :
        /\ Cardinality(SignedFor(hostname)) <= 1
        /\ ReturnedFor(hostname) # {} => Cardinality(SignedFor(hostname)) = 1

\* C3: all callers for a hostname receive the same certificate object, and once
\* the calls have returned it is the one the certificate map holds.
C3_CallersShareIdentity ==
    \A hostname \in Hosts :
        /\ Cardinality(ReturnedFor(hostname)) <= 1
        /\ (AllReturned /\ hostname \in DOMAIN certMap)
              => ReturnedFor(hostname) \subseteq {certMap[hostname]}

\* C37: once the certificate map holds a certificate for a hostname, no step
\* overwrites or removes it: the map holds the same object from then on.
C37_MappingIsStable ==
    [][\A hostname \in DOMAIN certMap :
          /\ hostname \in DOMAIN certMap'
          /\ certMap'[hostname] = certMap[hostname]]_vars

\* C19: any two leaves minted by the same CertManager carry different serial
\* numbers, whatever their hostnames and whenever they were minted.
C19_SerialsDistinct ==
    \A i, j \in 1..Len(minted) :
        i # j => minted[i].SerialNumber # minted[j].SerialNumber

\* The certificate the first successful GetCertificate(hostname) returned.
FirstReturned(hostname) ==
    LET I == {i \in 1..Len(results) :
                 results[i].hostname = hostname /\ results[i].cert # NoCert}
        first == CHOOSE i \in I : \A j \in I : i <= j
    IN  results[first].cert

\* C20: once GetCertificate(H) has returned a certificate, every call for H
\* that starts afterwards returns that same object and generates nothing.
C20_LaterCallsReturnFirst ==
    [][\A g \in Goroutines :
          (callers[g] = Idle /\ \E hostname \in Hosts :
              /\ ReturnedFor(hostname) # {}
              /\ \/ callers'[g] # Idle /\ callers'[g].hostname = hostname
                 \/ /\ callers' = callers
                    /\ Len(results') = Len(results) + 1
                    /\ results'[Len(results')].hostname = hostname)
          => /\ callers'[g] = Idle
             /\ minted' = minted
             /\ LET r == results'[Len(results')]
                IN  r.cert = FirstReturned(r.hostname)]_vars

\* The leaf c, one of the leaves in signed, is an identity for hostname: subject
\* and SAN name it, the chain is the leaf and the CA certificate, and no other
\* leaf carries its private key.
LeafFor(c, hostname, signed) ==
    /\ c.CommonName = hostname
    /\ hostname \in Range(c.DNSNames)
    /\ c.Chain = <<"leaf", "ca">>
    /\ \A i \in 1..Len(signed) : signed[i] # c => signed[i].PrivateKey # c.PrivateKey

\* C26: every leaf GetCertificate returns for a hostname has that hostname as
\* subject CN and among its SAN DNS names, its own private key and the chain
\* [leaf, root]; and the validity interval of a leaf contains the time it is
\* minted at.
C26_LeafIdentity ==
    [][/\ \A i \in 1..Len(results') :
             results'[i].cert # NoCert
                 => LeafFor(results'[i].cert, results'[i].hostname, minted')
       /\ Len(minted') > Len(minted) =>
             LET c == minted'[Len(minted')] IN
             c.NotBefore <= now /\ now <= c.NotAfter]_vars

\* Leaves for two hostnames have been returned, one of them minted after the
\* clock moved.
C26_Witness ==
    /\ \A hostname \in Hosts : ReturnedFor(hostname) # {}
    /\ \E i \in 1..Len(minted) : minted[i].NotBefore > 0

\* The client went away while the origin holds the outbound request.
GoneInFlight == flight.clientGone /\ flight.state = "inflight"

\* C27: when the client disconnects while the plain-HTTP handler is forwarding,
\* the outbound request is cancelled: it does not stay with the origin.
C27_DisconnectCancelsUpstream == GoneInFlight ~> flight.state # "inflight"

-----------------------------------------------------------------------------
(* Properties of the tiered cache *)

\* C30: TieredCache.Get returns what L1 holds without asking L2; after an L1
\* miss it asks L2 when there is one, stores an entry L2 returns in L1, where
\* the next Get finds it, and returns it; it reports a miss only when L1 holds
\* no live entry and L2 returned none.
C30_TiersInOrder ==
    [][last'.op = "TieredGet" =>
         LET key == last'.key IN
         IF Found(entries, key, now)
         THEN /\ last'.found /\ last'.entry = entries[key]
              /\ last'.l2 = "not queried"
              /\ entries' = entries /\ tier'.l2 = tier.l2
         ELSE /\ tier.hasL2 <=> last'.l2 # "not queried"
              /\ last'.found <=> last'.l2 = "hit"
              /\ last'.l2 = "hit" =>
                    /\ L2Live(key) /\ last'.entry = tier.l2[key]
                    /\ Found(entries', key, now) /\ entries'[key] = last'.entry
              /\ last'.l2 = "miss" => ~L2Live(key)
              /\ ~last'.found => last'.entry = NoEntry /\ entries' = entries]_vars

\* A Get served by L1 from the entry an earlier Get had found in L2 only.
C30_Witness ==
    /\ last.op = "TieredGet" /\ last.found /\ last.l2 = "not queried"
    /\ tier.l2Hits = 1 /\ tier.l1Hits = 1
    /\ L2Live(last.key) /\ tier.l2[last.key] = last.entry

\* The Gets of the TieredCache that have returned, over the goroutines of S.
RECURSIVE Returned(_)
Returned(S) ==
    IF S = {} THEN 0
    ELSE LET g == CHOOSE x \in S : TRUE IN getters[g].done + Returned(S \ {g})

\* Goroutine g returns from TieredCache.Get in the step.
Returns(g) == getters'[g].done = getters[g].done + 1

\* C36: every Get of the TieredCache adds one to exactly one of hitCount and
\* missCount, and in every state, with Gets under way in other goroutines too,
\* hitCount = l1Hits + l2Hits; so it is in what Stats returns.
C36_HitsAddUp ==
    /\ [](/\ tier.hitCount = tier.l1Hits + tier.l2Hits
          /\ tier.hitCount + tier.missCount = Returned(Goroutines)
          /\ ("l1Hits" \in DOMAIN observed =>
                observed.hits = observed.l1Hits + observed.l2Hits))
    /\ [][/\ \A g \in Goroutines : Returns(g) =>
               \/ /\ tier'.hitCount = tier.hitCount + 1
                  /\ tier'.missCount = tier.missCount
               \/ /\ tier'.hitCount = tier.hitCount
                  /\ tier'.missCount = tier.missCount + 1
          /\ (tier'.hitCount # tier.hitCount \/ tier'.missCount # tier.missCount) =>
               \E g \in Goroutines : Returns(g)]_vars

\* A Get that found its entry in L2 returns while the Get of the other
\* goroutine, which found its entry in L1, has yet to count; Stats has
\* returned in between.
C36_Witness ==
    /\ last.op = "TieredGet" /\ last.found
    /\ tier.l2Hits = 1
    /\ \E g \in Goroutines : getters[g].pc = "countL1"
    /\ "l1Hits" \in DOMAIN observed /\ observed.hits = 0

-----------------------------------------------------------------------------
(* Properties of the buffer pools *)

\* Goroutine g takes a buffer in this step.
Takes(g) == pool.held[g] = 0 /\ pool'.held[g] # 0

\* Goroutine g gives its buffer back in this step.
Gives(g) == pool.held[g] # 0 /\ pool'.held[g] = 0

\* C28: a buffer taken from the pool has length 0, shows no bytes of an earlier
\* holder and has a capacity of at least 32 KiB; a buffer given back is pooled
\* with the capacity it had.
C28_PooledBufferIsCleared ==
    [][\A g \in Goroutines :
          /\ Takes(g) =>
                LET b == pool'.bufs[pool'.held[g]] IN
                b.len = 0 /\ b.written = {} /\ b.cap >= defaultBufferSize
          /\ Gives(g) =>
                LET i == pool.held[g] IN
                i \in pool'.free /\ pool'.bufs[i].cap = pool.bufs[i].cap]_vars

-----------------------------------------------------------------------------
(* Properties of the cacheability predicate *)

\* Every value of the header lines of name.
HeaderValues(h, name) == IF name \in DOMAIN h THEN Range(h[name]) ELSE {}

\* C5: IsCacheable is true exactly when the method is GET, the status is in
\* [200, 300), the response's Cache-Control contains none of no-store, no-cache
\* and private, and the request has no Authorization header.
C5_IsCacheableIffAllFour ==
    ret.fn = "IsCacheable" =>
        (ret.value <=>
            /\ call.r.Method = "GET"
            /\ call.resp.StatusCode >= 200 /\ call.resp.StatusCode < 300
            /\ \A v \in HeaderValues(call.resp.Header, "Cache-Control") :
                  ~Contains(v, "no-store") /\ ~Contains(v, "no-cache") /\ ~Contains(v, "private")
            /\ "Authorization" \notin DOMAIN call.r.Header)

\* The values n of the max-age=n directives among the first k directives.
RECURSIVE MaxAgesIn(_, _)
MaxAgesIn(directives, k) ==
    IF k = 0 THEN {}
    ELSE LET directive == TrimSpace(directives[k])
             n == ParseInt(SubSeq(directive, Len("max-age=") + 1, Len(directive))) IN
         MaxAgesIn(directives, k - 1)
             \cup (IF HasPrefix(directive, "max-age=") /\ n.err = "" THEN {n.value} ELSE {})

\* The values n for which the response's Cache-Control, on any of its lines,
\* carries max-age=n.
MaxAgesCarried(resp) ==
    UNION {MaxAgesIn(Split(v), Len(Split(v))) : v \in HeaderValues(resp.Header, "Cache-Control")}

\* The TTL the claim gives a response, where it names one.
ExpectedTTL(resp, defaultAge) ==
    IF MaxAgesCarried(resp) = {} THEN {defaultAge} ELSE MaxAgesCarried(resp)

\* C22: the TTL GetMaxAge derives is n when the response's Cache-Control
\* carries max-age=n and the default otherwise, and an entry CreateCacheEntry
\* builds has ExpireAt - CachedAt equal to the TTL GetMaxAge derives from the
\* same response.
C22_TTLFromMaxAge ==
    /\ ret.fn = "GetMaxAge" =>
          (Cardinality(ExpectedTTL(call.resp, call.maxAge)) = 1
              => ret.value \in ExpectedTTL(call.resp, call.maxAge))
    /\ ret.fn = "CreateCacheEntry" =>
          ret.value.ExpireAt - ret.value.CachedAt = GetMaxAge(call.resp, call.maxAge)

\* The bytes the origin sends as the body of the response of the pending call.
UpstreamBody == Concat(call.resp.Body.chunks, Len(call.resp.Body.chunks))

\* C31: CreateCacheEntry on a body that reads to its end gives an entry whose
\* Body is the whole upstream body and whose Size is its length, and leaves the
\* response with a body that reads in full with the same bytes; on a read error
\* it gives no entry.
C31_BodyDrainedNotLost ==
    ret.fn = "CreateCacheEntry" =>
        IF call.resp.Body.err = ""
        THEN /\ ret.err = ""
             /\ ret.entry.Body = UpstreamBody
             /\ ret.entry.Size = Len(UpstreamBody)
             /\ ~ret.streamed => ReadAll(ret.resp.Body) = [data |-> UpstreamBody, err |-> ""]
             /\ ret.streamed => ret.client = UpstreamBody
        ELSE ret.err # "" /\ ret.entry = NoEntry /\ ~ret.streamed

\* The body of several chunks has been cached and then streamed to the client.
C31_Witness ==
    /\ ret.fn = "CreateCacheEntry" /\ ret.streamed
    /\ Len(call.resp.Body.chunks) = MaxChunks
    /\ ret.entry.Size = 5 /\ ret.client = ret.entry.Body

\* The four fields of a request the key is to depend on.
KeyFields(r) ==
    <<r.Method, r.URL, HeaderValues(r.Header, "Accept"), HeaderValues(r.Header, "Accept-Encoding")>>

\* C23: two requests get the same key exactly when they are equal in method,
\* URL, Accept value and Accept-Encoding value.
C23_KeyDependsOnFourFields ==
    ret.fn = "GenerateKey" =>
        (ret.k1 = ret.k2 <=> KeyFields(call.r1) = KeyFields(call.r2))

-----------------------------------------------------------------------------
(* Properties of the plain-HTTP handlers *)

\* The hop-by-hop headers, under the names the server keeps them.
HopByHop ==
    {CanonicalMIMEHeaderKey(name) :
        name \in {"Connection", "Proxy-Connection", "Keep-Alive", "Proxy-Authenticate",
                  "Proxy-Authorization", "TE", "Trailer", "Transfer-Encoding", "Upgrade"}}

\* C6: the outbound request of the plain-HTTP handler carries none of the
\* hop-by-hop headers, whatever the client sent, and every other header of
\* the client.
C6_NoHopByHopForwarded ==
    (handler # "none" /\ RoundTrip(outReq, [err |-> ""]).err = "") =>
        /\ DOMAIN outReq.Header \cap HopByHop = {}
        /\ \A name \in DOMAIN clientReq.Header \ HopByHop :
              name \in DOMAIN outReq.Header /\ outReq.Header[name] = clientReq.Header[name]

\* C14: in the plain-HTTP handler a transport failure toward the origin is
\* answered with 502 and the transport's error message in the body, and
\* nothing of an upstream response (status, headers, body) reaches the client.
C14_TransportFailureIs502 ==
    (handler # "none" /\ upstreamResp.err # "") =>
        /\ w.StatusCode = 502
        /\ Contains(w.Body, upstreamResp.err)
        /\ \A net \in Upstream : net.err = "" =>
              /\ w.Body # net.Body
              /\ DOMAIN w.Header \cap DOMAIN net.Header = {}

\* The origin refused the connection of a request the transport could send.
C14_Witness ==
    /\ handler # "none"
    /\ upstreamResp.err = "connection refused"
    /\ w.StatusCode = 502

\* C15: a non-CONNECT request whose absolute URI has an empty authority is
\* answered with 400 and is not forwarded to any origin.
C15_EmptyAuthorityIs400 ==
    (handler # "none" /\ clientReq.URL.Scheme = "http" /\ clientReq.URL.Host = "") =>
        /\ w.StatusCode = 400
        /\ RoundTrip(outReq, [err |-> ""]).err # ""

\* The request is addressed to the proxy: origin-form, or an absolute URI
\* naming the proxy's own address.
TargetsProxy(r) == r.URL.Host \in {"", ProxyAddr}

\* C17: a non-CONNECT request is answered by a control route only when its
\* path is reserved and it targets the proxy itself; a request for a reserved
\* path on an origin is forwarded to that origin.
C17_ControlRoutesOnlyForProxy ==
    handler # "none" =>
        /\ handler \in ControlRoutes =>
              clientReq.URL.Path \in ControlRoutes /\ TargetsProxy(clientReq)
        /\ ~TargetsProxy(clientReq) =>
              /\ handler \notin ControlRoutes
              /\ outReq.URL.Host = clientReq.URL.Host
              /\ outReq.URL.Path = clientReq.URL.Path

-----------------------------------------------------------------------------
(* Properties of the caching plain-HTTP handler *)

\* The i-th request was forwarded and the origin's answer is one IsCacheable
\* accepts.
CacheableAnswer(i) ==
    /\ served[i].forwarded
    /\ served[i].resp.err = ""
    /\ IsCacheable(served[i].req, served[i].resp)

\* No earlier identical request drew a cacheable answer from the origin.
NothingCachedBefore(i) ==
    \A k \in 1..(i - 1) : served[k].req = served[i].req => ~CacheableAnswer(k)

\* The j-th answer is the replay of what the i-th request was answered with.
ReplayOf(i, j) ==
    /\ ~served[j].forwarded
    /\ served[j].w.Body = served[i].w.Body
    /\ HeaderGet(served[j].w.Header, "X-Cache") = "HIT"
    /\ HeaderGet(served[j].w.Header, "X-Cache-Age") \in {ToString(n) : n \in 0..MaxTime}

StillFresh(i, j) ==
    ~Expired(CreateCacheEntry(served[i].resp, DefaultMaxAge, served[i].at), served[j].at)

-----------------------------------------------------------------------------
(* Properties of the CONNECT handlers *)

\* The positions of the steps named op in the handler's log.
Steps(op) == {i \in 1..Len(conn.log) : conn.log[i].op = op}

\* Every step named b comes after a step named a.
Precedes(a, b) == \A j \in Steps(b) : \E i \in Steps(a) : i < j

\* The steps that reach for the origin.
OriginSteps == {"Dial", "WriteRequest", "ReadResponse", "RoundTrip"}

\* C11: in the CONNECT handler the 200 Connection Established line is written
\* to the hijacked socket before a certificate is obtained, the certificate
\* before the TLS handshake, the handshake before the inner request is read,
\* and the inner request before anything is sent or dialled to the origin.
C11_ConnectStepsInOrder ==
    conn.pc # "idle" =>
        /\ Precedes("Hijack", "Write200")
        /\ Steps("Write200") # {} => conn.sock = <<Established>>
        /\ Precedes("Write200", "GetCertificate")
        /\ Precedes("GetCertificate", "Handshake")
        /\ Precedes("Handshake", "ReadRequest")
        /\ \A op \in OriginSteps : Precedes("ReadRequest", op)

\* A CONNECT ran through every step and the origin's response went back to
\* the client inside the TLS session.
C11_Witness ==
    /\ conn.pc = "done"
    /\ conn.tlsOut # << >>
    /\ \A op \in {"Write200", "GetCertificate", "Handshake", "ReadRequest"} : Steps(op) # {}
    /\ \E op \in OriginSteps : Steps(op) # {}

\* The leaf could not be obtained, or the TLS handshake with the client failed.
InterceptFailed ==
    \E i \in Steps("GetCertificate") \cup Steps("Handshake") : ~conn.log[i].ok

UpstreamFailed ==
    \E i \in Steps("Dial") \cup Steps("RoundTrip") : conn.log[i].err # ""

\* C13: when the dial or the round trip toward the origin fails after the
\* handshake succeeded and the inner request was read, the handler writes a
\* 502 Bad Gateway response inside the TLS session before it closes.
C13_UpstreamFailureAnswers502 ==
    (conn.pc = "done" /\ Steps("ReadRequest") # {} /\ UpstreamFailed) =>
        \E i \in 1..Len(conn.tlsOut) : conn.tlsOut[i].StatusCode = 502

\* The host of a CONNECT target, without its port.
HostOf(target) ==
    IF Colons(target) = {} THEN target
    ELSE SubSeq(target, 1, (CHOOSE i \in Colons(target) : \A j \in Colons(target) : i <= j) - 1)

\* C18: for a CONNECT target without a port the handler reaches for the origin
\* at port 443 and is not stopped by the missing port; for every target the
\* hostname the certificate is asked for is the host without the port.
C18_PortDefaultsTo443 ==
    conn.pc # "idle" =>
        /\ \A i \in Steps("GetCertificate") : conn.log[i].hostname = HostOf(conn.target)
        /\ SplitHostPort(conn.target).err # "" =>
              \A i \in Steps("Dial") \cup Steps("RoundTrip") :
                  /\ conn.log[i].addr = conn.target \o ":443"
                  /\ conn.log[i].err # "missing port in address"

\* The handler has returned from a path that began with a successful Hijack.
PathEnded == conn.pc = "done" /\ Steps("Hijack") # {}

\* The TLS handshake with the client succeeded.
Intercepted == \E i \in Steps("Handshake") : conn.log[i].ok

\* One request at most is read from the TLS stream, and one is read whenever
\* the handler got past the handshake and returned; one response at most is
\* written back; the client socket is closed at the end of the path.
OneExchangeThenClose ==
    /\ Cardinality(Steps("ReadRequest")) <= 1
    /\ Cardinality(Steps("WriteResponse")) <= 1
    /\ Len(conn.tlsOut) <= 1
    /\ PathEnded =>
          /\ conn.closed
          /\ Intercepted => Cardinality(Steps("ReadRequest")) = 1

\* C29 as stated: one request read, at most one response written, and at the
\* end of every path after a successful hijack the client socket is closed and
\* an upstream connection that was opened is closed.
C29_OneExchangeAllClosed ==
    /\ OneExchangeThenClose
    /\ PathEnded => conn.upstream \in {"none", "closed"}

\* C29: one request read, at most one response written, and at the end of
\* every path after a successful hijack the client socket is closed; a
\* connection Server.handleConnect dialled is closed, and one the shared
\* transport opened for ProxyServer.handleConnect is closed or back with the
\* transport.
C29_OneExchangeSocketClosed ==
    /\ OneExchangeThenClose
    /\ PathEnded =>
          \/ conn.upstream \in {"none", "closed"}
          \/ conn.variant = "ProxyServer" /\ conn.upstream = "idle"

\* ProxyServer.handleConnect has written the response and returned.
C29_Witness ==
    /\ PathEnded /\ conn.closed
    /\ conn.variant = "ProxyServer"
    /\ Len(conn.tlsOut) = 1
    /\ conn.upstream = "idle"

====
